---- MODULE Spec2Model ----
(***************************************************************************)
(* ChunkAtlas: the region file reader (MCAFile), the chunk decompression   *)
(* step (ChunkNBT constructor) and the NBT pass (ChunkNBT::getChunkData).  *)
(***************************************************************************)
EXTENDS Integers, Sequences, FiniteSets, TLC

(***************************************************************************)
(* Bounds of the model.                                                    *)
(***************************************************************************)
\* longest file name drawn by InitName
MaxNameLen == 5
\* calls of inflate that may deliver only a part of what is left
MaxPartialCalls == 1

(***************************************************************************)
(* Program constants.                                                      *)
(***************************************************************************)
\* std::string::npos, the "not found" result of find / find_first_of
npos == -1
\* width/height in chunks of a region file
dimInChunks == 32
\* bytes of one sector of a region file
sectorSize == 4096
\* output buffer of one inflate call
bufferSize == 8192
\* sectors in the range of unsigned int (2^32 / sectorSize) and of int
uintSectors == 1048576
intSectors == 524288

numChunks == dimInChunks * dimInChunks
tableSize == numChunks * 4

Min(S) == CHOOSE x \in S : \A y \in S : x <= y
Max(S) == CHOOSE x \in S : \A y \in S : x >= y

(***************************************************************************)
(* File names.  A name is a sequence of one-character strings; positions   *)
(* are 0-based like those of std::string.                                  *)
(***************************************************************************)
numChars == {"-", "0", "1", "2", "3", "4", "5", "6", "7", "8", "9"}
Digits == numChars \ {"-"}

DigitVal(c) ==
    CASE c = "0" -> 0 [] c = "1" -> 1 [] c = "2" -> 2 [] c = "3" -> 3
      [] c = "4" -> 4 [] c = "5" -> 5 [] c = "6" -> 6 [] c = "7" -> 7
      [] c = "8" -> 8 [] c = "9" -> 9

\* name.find_first_of(chars)
FindFirstOf(name, chars) ==
    LET hits == {k \in 0..(Len(name) - 1) : name[k + 1] \in chars}
    IN  IF hits = {} THEN npos ELSE Min(hits)

\* name.find(ch, from); from = npos lies past every position
Find(name, ch, from) ==
    LET hits == {k \in 0..(Len(name) - 1) : k >= from /\ name[k + 1] = ch}
    IN  IF from = npos \/ hits = {} THEN npos ELSE Min(hits)

\* name.substr(from, count), called with from <= size
Substr(name, from, count) ==
    LET last == IF from + count > Len(name) THEN Len(name) ELSE from + count
    IN  SubSeq(name, from + 1, last)

RECURSIVE DigitsValue(_, _)
\* the value of the longest run of digits at the head of s, after acc
DigitsValue(s, acc) ==
    IF s = <<>> \/ Head(s) \notin Digits THEN acc
    ELSE DigitsValue(Tail(s), acc * 10 + DigitVal(Head(s)))

RECURSIVE SkipSpace(_)
SkipSpace(s) == IF s # <<>> /\ Head(s) = " " THEN SkipSpace(Tail(s)) ELSE s

\* std::stoi(s): leading white space, an optional sign, then digits; with no
\* digit it throws std::invalid_argument (ok = FALSE)
Stoi(s) ==
    LET t == SkipSpace(s)
        signed == t # <<>> /\ Head(t) \in {"-", "+"}
        body == IF signed THEN Tail(t) ELSE t
    IN  IF body = <<>> \/ Head(body) \notin Digits
        THEN [ok |-> FALSE, val |-> 0]
        ELSE [ok |-> TRUE,
              val |-> IF signed /\ Head(t) = "-"
                      THEN 0 - DigitsValue(body, 0)
                      ELSE DigitsValue(body, 0)]

\* the coordinates part of the constructor: "empty" is the reported early
\* return, "thrown" an exception leaving the constructor
ParseCoords(name) ==
    LET xStart == FindFirstOf(name, numChars)
        xEnd == Find(name, ".", xStart)
        yStart == xEnd + 1
        yEnd == Find(name, ".", yStart)
    IN  IF xStart = npos \/ xEnd = npos \/ yEnd = npos
        THEN [res |-> "empty", x |-> 0, y |-> 0]
        ELSE LET sx == Stoi(Substr(name, xStart, xEnd - xStart))
                 sy == Stoi(Substr(name, yStart, yEnd - yStart))
             IN  IF ~sx.ok \/ ~sy.ok
                 THEN [res |-> "thrown", x |-> 0, y |-> 0]
                 ELSE [res |-> "ok", x |-> dimInChunks * sx.val,
                       y |-> dimInChunks * sy.val]

(***************************************************************************)
(* NBT data.  A byte is a number in 0..255; text is a sequence of bytes.   *)
(***************************************************************************)
tEnd == 0
tByte == 1
tShort == 2
tInt == 3
tLong == 4
tFloat == 5
tDouble == 6
tByteArray == 7
tString == 8
tList == 9
tCompound == 10
tIntArray == 11
tLongArray == 12

\* namespace Keys
Keys_inhabitedTime == <<73, 110, 104, 97, 98, 105, 116, 101, 100, 84, 105, 109, 101>>
Keys_lastUpdate == <<76, 97, 115, 116, 85, 112, 100, 97, 116, 101>>
Keys_biome == <<66, 105, 111, 109, 101, 115>>
Keys_structure == <<83, 116, 114, 117, 99, 116, 117, 114, 101, 115>>
Keys_structureRefs == <<82, 101, 102, 101, 114, 101, 110, 99, 101, 115>>

\* Structure::unknown
unknown == -1

\* parseStructure(name): the Structure value of a structure name, or unknown
parseStructure(name) ==
    CASE name = <<77, 111, 110, 117, 109, 101, 110, 116>> -> 4   \* Monument
      [] name = <<77, 97, 110, 115, 105, 111, 110>> -> 5   \* Mansion
      [] name = <<83, 119, 97, 109, 112, 95, 72, 117, 116>> -> 10   \* Swamp_Hut
      [] name = <<77, 105, 110, 101, 115, 104, 97, 102, 116>> -> 0   \* Mineshaft
      [] name = <<73, 103, 108, 111, 111>> -> 11   \* Igloo
      [] name = <<83, 116, 114, 111, 110, 103, 104, 111, 108, 100>> -> 6   \* Stronghold
      [] name = <<68, 101, 115, 101, 114, 116, 95, 80, 121, 114, 97, 109, 105, 100>> -> 7   \* Desert_Pyramid
      [] name = <<74, 117, 110, 103, 108, 101, 95, 80, 121, 114, 97, 109, 105, 100>> -> 8   \* Jungle_Pyramid
      [] name = <<80, 105, 108, 108, 97, 103, 101, 114, 95, 79, 117, 116, 112, 111, 115, 116>> -> 9   \* Pillager_Outpost
      [] name = <<86, 105, 108, 108, 97, 103, 101>> -> 1   \* Village
      [] name = <<79, 99, 101, 97, 110, 95, 82, 117, 105, 110>> -> 12   \* Ocean_Ruin
      [] name = <<83, 104, 105, 112, 119, 114, 101, 99, 107>> -> 13   \* Shipwreck
      [] name = <<66, 117, 114, 105, 101, 100, 95, 84, 114, 101, 97, 115, 117, 114, 101>> -> 14   \* Buried_Treasure
      [] name = <<69, 110, 100, 67, 105, 116, 121>> -> 2   \* EndCity
      [] name = <<70, 111, 114, 116, 114, 101, 115, 115>> -> 3   \* Fortress
      [] OTHER -> unknown

Zeros(n) == [k \in 1..n |-> 0]

\* a long (std::int64_t) is kept as its eight bytes, most significant first
LongZero == Zeros(8)

RECURSIVE SignedBE(_, _)
\* the two's complement value of big-endian bytes after the signed head acc
SignedBE(bytes, acc) ==
    IF bytes = <<>> THEN acc ELSE SignedBE(Tail(bytes), acc * 256 + Head(bytes))

\* the signed integer (1, 2 or 4 bytes wide) that readBytes<T> assembles
Signed(bytes) ==
    SignedBE(Tail(bytes), IF Head(bytes) >= 128 THEN Head(bytes) - 256
                          ELSE Head(bytes))

(***************************************************************************)
(* ChunkNBT.  d is the ChunkNBT object (extractedData, dataIndex) together *)
(* with the locals of one getChunkData call; frames are the array and list *)
(* loops that are running, innermost last.                                 *)
(***************************************************************************)
\* readBytes<T>() for a T of numBytes bytes: zero when the buffer ends first,
\* with dataIndex left after the bytes that were there
readBytes(d, numBytes) ==
    LET have == Len(d.extractedData) - d.dataIndex
        ok == have >= numBytes
        got == IF ok THEN numBytes ELSE have
    IN  [bytes |-> IF ok THEN SubSeq(d.extractedData, d.dataIndex + 1,
                                      d.dataIndex + numBytes)
                   ELSE Zeros(numBytes),
         d |-> [d EXCEPT !.dataIndex = @ + got]]

readByte(d) == LET r == readBytes(d, 1) IN [val |-> Signed(r.bytes), d |-> r.d]
readShort(d) == LET r == readBytes(d, 2) IN [val |-> Signed(r.bytes), d |-> r.d]
readInt(d) == LET r == readBytes(d, 4) IN [val |-> Signed(r.bytes), d |-> r.d]
readLong(d) == LET r == readBytes(d, 8) IN [val |-> r.bytes, d |-> r.d]
\* readFloat, readDouble: the same bytes, reinterpreted; the value is unused
readFloat(d) == readBytes(d, 4).d
readDouble(d) == readBytes(d, 8).d

RECURSIVE readNameChars(_, _, _)
\* the loop of readName: name holds '!' where nothing was stored yet, and the
\* loop returns after storing a zero character
readNameChars(d, name, k) ==
    IF k >= Len(name) THEN [name |-> name, d |-> d]
    ELSE LET r == readBytes(d, 1)
             charVal == r.bytes[1]
             stored == [name EXCEPT ![k + 1] = charVal]
         IN  IF charVal = 0 THEN [name |-> stored, d |-> r.d]
             ELSE readNameChars(r.d, stored, k + 1)

\* readName(isNamed); a negative nameLength makes name.resize throw
\* std::length_error
readName(d, isNamed) ==
    IF ~isNamed THEN [name |-> <<>>, d |-> d]
    ELSE LET len == readShort(d)
         IN  IF len.val < 0
             THEN [name |-> <<>>, d |-> [len.d EXCEPT !.phase = "thrown"]]
             ELSE readNameChars(len.d, [k \in 1..len.val |-> 33], 0)

\* a variant of foldBiome that adds 128 once
foldBiomeOnce(val) == IF val < 0 THEN val + 128 ELSE val

RECURSIVE foldBiome(_)
\* while (val < 0) val += 128
foldBiome(val) == IF val < 0 THEN foldBiome(val + 128) ELSE val

top(stack) == stack[Len(stack)]
pop(stack) == SubSeq(stack, 1, Len(stack) - 1)

\* the loop of an array or list handler: a frame while length > 0, and
\* otherwise the statement after the loop at once
startLoop(d, kind, type, length, before) ==
    IF length > 0
    THEN [d EXCEPT !.frames = Append(@, [kind |-> kind, type |-> type,
                                         left |-> length,
                                         biomeBefore |-> before])]
    ELSE IF kind = "longArray" THEN d ELSE [d EXCEPT !.inBiomeList = FALSE]

parseEnd(d) ==
    IF d.openTags = <<>> THEN d
    ELSE LET d1 == IF d.inStructureRefs /\ top(d.openTags) = Keys_structureRefs
                   THEN [d EXCEPT !.inStructureRefs = FALSE]
                   ELSE IF d.inStructureRefs
                           /\ top(d.openTags) = d.currentStructName
                        THEN [d EXCEPT !.currentStruct = unknown,
                                       !.currentStructName = <<>>]
                        ELSE d
         IN  [d1 EXCEPT !.openTags = pop(@)]

parseByte(d, isNamed) ==
    LET n == readName(d, isNamed)
        v == readByte(n.d)
    IN  IF n.d.phase = "thrown" THEN n.d
        ELSE IF v.d.inBiomeList
             THEN [v.d EXCEPT !.biomes = Append(@, foldBiome(v.val))]
             ELSE v.d

parseShort(d, isNamed) ==
    LET n == readName(d, isNamed)
        v == readShort(n.d)
    IN  IF n.d.phase = "thrown" THEN n.d
        ELSE IF v.d.inBiomeList
             THEN [v.d EXCEPT !.biomes = Append(@, v.val)]
             ELSE v.d

parseInt(d, isNamed) ==
    LET n == readName(d, isNamed)
        v == readInt(n.d)
    IN  IF n.d.phase = "thrown" THEN n.d
        ELSE IF v.d.inBiomeList
             THEN [v.d EXCEPT !.biomes = Append(@, foldBiome(v.val))]
             ELSE v.d

\* a variant of parseLong that stores unnamed longs as well
parseLongAny(d, isNamed) ==
    LET n == readName(d, isNamed)
        v == readLong(n.d)
    IN  IF n.d.phase = "thrown" THEN n.d
        ELSE IF n.name = Keys_inhabitedTime
             THEN [v.d EXCEPT !.inhabitedTime = v.val]
        ELSE [v.d EXCEPT !.lastUpdate = v.val]

parseLong(d, isNamed) ==
    LET n == readName(d, isNamed)
        v == readLong(n.d)
    IN  IF n.d.phase = "thrown" THEN n.d
        ELSE IF n.name = <<>> THEN v.d
        ELSE IF n.name = Keys_lastUpdate
             THEN [v.d EXCEPT !.lastUpdate = v.val]
        ELSE IF n.name = Keys_inhabitedTime
             THEN [v.d EXCEPT !.inhabitedTime = v.val]
        ELSE v.d

parseFloat(d, isNamed) ==
    LET n == readName(d, isNamed)
    IN  IF n.d.phase = "thrown" THEN n.d ELSE readFloat(n.d)

parseDouble(d, isNamed) ==
    LET n == readName(d, isNamed)
    IN  IF n.d.phase = "thrown" THEN n.d ELSE readDouble(n.d)

parseByteArray(d, isNamed) ==
    LET n == readName(d, isNamed)
        d1 == IF n.name = Keys_biome THEN [n.d EXCEPT !.inBiomeList = TRUE]
              ELSE n.d
        length == readInt(d1)
    IN  IF n.d.phase = "thrown" THEN n.d
        ELSE startLoop(length.d, "byteArray", tByte, length.val, d.inBiomeList)

parseString(d, isNamed) ==
    LET n == readName(d, isNamed)
    IN  IF n.d.phase = "thrown" THEN n.d ELSE readName(n.d, TRUE).d

parseList(d, isNamed) ==
    LET n == readName(d, isNamed)
        d1 == IF n.name = Keys_biome THEN [n.d EXCEPT !.inBiomeList = TRUE]
              ELSE n.d
        type == readByte(d1)
        length == readInt(type.d)
    IN  IF n.d.phase = "thrown" THEN n.d
        ELSE startLoop(length.d, "list", type.val, length.val, d.inBiomeList)

\* a variant of parseCompound that does not look at the enclosing compound
parseCompoundAnyParent(d, isNamed) ==
    LET n == readName(d, isNamed)
        d1 == IF n.d.inStructureRefs /\ n.d.currentStructName = <<>>
              THEN LET s == parseStructure(n.name)
                   IN  [n.d EXCEPT !.currentStruct = s,
                                   !.currentStructName =
                                       IF s # unknown THEN n.name ELSE @]
              ELSE IF n.name = Keys_structureRefs
                   THEN [n.d EXCEPT !.inStructureRefs = TRUE]
                   ELSE n.d
    IN  IF n.d.phase = "thrown" THEN n.d
        ELSE [d1 EXCEPT !.openTags = Append(@, n.name)]

parseCompound(d, isNamed) ==
    LET n == readName(d, isNamed)
        d1 == IF n.d.inStructureRefs /\ n.d.currentStructName = <<>>
              THEN LET s == parseStructure(n.name)
                   IN  [n.d EXCEPT !.currentStruct = s,
                                   !.currentStructName =
                                       IF s # unknown THEN n.name ELSE @]
              ELSE IF n.d.openTags # <<>>
                      /\ top(n.d.openTags) = Keys_structure
                      /\ n.name = Keys_structureRefs
                   THEN [n.d EXCEPT !.inStructureRefs = TRUE]
                   ELSE n.d
    IN  IF n.d.phase = "thrown" THEN n.d
        ELSE [d1 EXCEPT !.openTags = Append(@, n.name)]

parseIntArray(d, isNamed) ==
    LET n == readName(d, isNamed)
        d1 == IF n.name = Keys_biome THEN [n.d EXCEPT !.inBiomeList = TRUE]
              ELSE n.d
        length == readInt(d1)
    IN  IF n.d.phase = "thrown" THEN n.d
        ELSE startLoop(length.d, "intArray", tInt, length.val, d.inBiomeList)

parseLongArray(d, isNamed) ==
    LET n == readName(d, isNamed)
        length == readInt(n.d)
    IN  IF n.d.phase = "thrown" THEN n.d
        ELSE startLoop(length.d, "longArray", tLong, length.val, d.inBiomeList)

\* parseTag[type](isNamed): a type the map does not hold gets an empty
\* std::function, and calling it throws std::bad_function_call
parseTag(d, type, isNamed) ==
    CASE type = tEnd -> parseEnd(d)
      [] type = tByte -> parseByte(d, isNamed)
      [] type = tShort -> parseShort(d, isNamed)
      [] type = tInt -> parseInt(d, isNamed)
      [] type = tLong -> parseLong(d, isNamed)
      [] type = tFloat -> parseFloat(d, isNamed)
      [] type = tDouble -> parseDouble(d, isNamed)
      [] type = tByteArray -> parseByteArray(d, isNamed)
      [] type = tString -> parseString(d, isNamed)
      [] type = tList -> parseList(d, isNamed)
      [] type = tCompound -> parseCompound(d, isNamed)
      [] type = tIntArray -> parseIntArray(d, isNamed)
      [] type = tLongArray -> parseLongArray(d, isNamed)
      [] OTHER -> [d EXCEPT !.phase = "thrown"]

\* a variant of loopCondition that looks at the stack only
loopConditionStackOnly(d) ==
    IF d.phase = "thrown" \/ d.frames # <<>> THEN d
    ELSE IF d.openTags # <<>> THEN d
    ELSE [d EXCEPT !.phase = "exit"]

\* while (! openTags.empty() && dataIndex < extractedData.size()), reached
\* when the handler the loop body called has returned
loopCondition(d) ==
    IF d.phase = "thrown" \/ d.frames # <<>> THEN d
    ELSE IF d.openTags # <<>> /\ d.dataIndex < Len(d.extractedData) THEN d
    ELSE [d EXCEPT !.phase = "exit"]

\* a variant of loopBody that records a structure for compound children only
loopBodyCompoundOnly(d) ==
    LET t == readByte(d)
        d1 == IF t.d.inStructureRefs /\ t.d.currentStruct # unknown
                 /\ t.val = tCompound
              THEN [t.d EXCEPT !.structures = @ \cup {t.d.currentStruct}]
              ELSE t.d
    IN  loopCondition(parseTag(d1, t.val, TRUE))

\* one pass of the body of the do-while loop, up to the return of the handler
\* or to the first element of the handler's loop
loopBody(d) ==
    LET t == readByte(d)
        d1 == IF t.d.inStructureRefs /\ t.d.currentStruct # unknown
                 /\ t.val # tEnd
              THEN [t.d EXCEPT !.structures = @ \cup {t.d.currentStruct}]
              ELSE t.d
    IN  loopCondition(parseTag(d1, t.val, TRUE))

\* one pass of the loop of an array or list handler: parseTag[type](false)
loopElement(d) ==
    LET f == top(d.frames)
        d1 == [d EXCEPT !.frames[Len(d.frames)].left = @ - 1]
    IN  parseTag(d1, f.type, FALSE)

\* the end of the loop of an array or list handler and the handler's return
loopEnd(d) ==
    LET f == top(d.frames)
        d1 == [d EXCEPT !.frames = pop(@)]
    IN  loopCondition(IF f.kind = "longArray" THEN d1
                      ELSE [d1 EXCEPT !.inBiomeList = FALSE])

\* the ChunkNBT object over the extracted bytes and the locals as
\* getChunkData declares them
newCall(extracted, index) ==
    [extractedData |-> extracted, dataIndex |-> index, openTags |-> <<>>,
     lastUpdate |-> LongZero, inhabitedTime |-> LongZero,
     inBiomeList |-> FALSE, inStructureRefs |-> FALSE,
     currentStruct |-> unknown, currentStructName |-> <<>>,
     biomes |-> <<>>, structures |-> {}, frames |-> <<>>, phase |-> "loop"]

\* a variant of addBiomes that counts every code once
addBiomesOnce(counts, biomes) ==
    [b \in DOMAIN counts \cup {biomes[k] : k \in 1..Len(biomes)} |-> 1]

\* ChunkData::addBiome for every biome in order
RECURSIVE addBiomes(_, _)
addBiomes(counts, biomes) ==
    IF biomes = <<>> THEN counts
    ELSE LET b == Head(biomes)
             next == IF b \notin DOMAIN counts THEN counts @@ (b :> 1)
                     ELSE [counts EXCEPT ![b] = @ + 1]
         IN  addBiomes(next, Tail(biomes))

\* the ChunkData that getChunkData returns
chunkOf(d, pos) ==
    [chunkPos |-> pos, inhabitedTime |-> d.inhabitedTime,
     lastUpdate |-> d.lastUpdate,
     biomeCounts |-> addBiomes(<<>>, d.biomes),
     structures |-> d.structures]

(***************************************************************************)
(* zlib.  A compressed payload is kept as what inflate makes of it: the    *)
(* bytes it yields (plain), how the stream ends (fault) and the number of  *)
(* compressed bytes it needs (clen).  fault is "none" for a complete       *)
(* stream, "data" for a corrupt one, "dict" for one asking for a           *)
(* dictionary, "trunc" for one that ends early, "mem" when inflate cannot  *)
(* allocate.                                                               *)
(***************************************************************************)
Faults == {"none", "data", "dict", "trunc", "mem"}

\* the states of a z_stream after inflateInit
newStream == [total_out |-> 0, mode |-> "run", calls |-> 0]

\* the code inflate returns when the end of what the stream yields is reached
endCode(fault) ==
    CASE fault = "none" -> "Z_STREAM_END"
      [] fault = "data" -> "Z_DATA_ERROR"
      [] fault = "dict" -> "Z_NEED_DICT"
      [] fault = "mem" -> "Z_MEM_ERROR"
      [] fault = "trunc" -> "Z_OK"

\* the code of every later call: an ended stream stays ended, a failed one
\* stays failed, and one with no input left makes no progress
stuckCode(mode) ==
    CASE mode = "none" -> "Z_STREAM_END"
      [] mode = "data" -> "Z_DATA_ERROR"
      [] mode = "dict" -> "Z_NEED_DICT"
      [] mode = "mem" -> "Z_MEM_ERROR"
      [] mode = "trunc" -> "Z_BUF_ERROR"

\* inflate(&zlibStream, Z_NO_FLUSH) with avail_out = bufferSize: every result
\* the library may give.  It either delivers all that is left (at most
\* bufferSize bytes) and reports how the stream ends, or makes progress on a
\* part of it and returns Z_OK.
inflate(zs, stream) ==
    LET rest == Len(stream.plain) - zs.total_out
        give(k) == SubSeq(stream.plain, zs.total_out + 1, zs.total_out + k)
        part == IF rest > bufferSize THEN {bufferSize}
                ELSE IF rest >= 2 /\ zs.calls < MaxPartialCalls
                     THEN {rest \div 2} ELSE {}
        whole == IF rest > bufferSize THEN {}
                 ELSE {[code |-> endCode(stream.fault), out |-> give(rest),
                        zs |-> [total_out |-> zs.total_out + rest,
                                mode |-> stream.fault,
                                calls |-> zs.calls]]}
    IN  IF zs.mode # "run"
        THEN {[code |-> stuckCode(zs.mode), out |-> <<>>, zs |-> zs]}
        ELSE whole \cup
             {[code |-> "Z_OK", out |-> give(k),
               zs |-> [total_out |-> zs.total_out + k, mode |-> "run",
                       calls |-> zs.calls + 1]] : k \in part}

\* a variant of inflatePass that keeps the output of the last pass only
inflatePassLast(extracted, r) ==
    [zResult |-> IF r.code = "Z_NEED_DICT" THEN "Z_DATA_ERROR" ELSE r.code,
     zlibStream |-> r.zs,
     extractedData |-> r.out]

\* the body of the loop of the ChunkNBT constructor for one result r of inflate
inflatePass(extracted, r) ==
    [zResult |-> IF r.code = "Z_NEED_DICT" THEN "Z_DATA_ERROR" ELSE r.code,
     zlibStream |-> r.zs,
     extractedData |-> extracted \o r.out]

(***************************************************************************)
(* The region file on disk: its size in bytes, the non-zero entries of its *)
(* location table and, by sector, the chunks stored in it (the five header *)
(* bytes, and the payload as zlib sees it).  Every other byte is zero.     *)
(* The position of the stream is a sector and an offset in it.             *)
(***************************************************************************)
tableEntry(d, idx) ==
    IF idx \in DOMAIN d.table THEN d.table[idx] ELSE <<0, 0, 0, 0>>

\* the byte at offset off < d.size
fileByte(d, off) ==
    IF off < tableSize THEN tableEntry(d, off \div 4)[(off % 4) + 1]
    ELSE LET s == off \div sectorSize
         IN  IF s \in DOMAIN d.chunks /\ off % sectorSize < 5
             THEN d.chunks[s].hdr[(off % sectorSize) + 1]
             ELSE 0

\* the bytes between the position and the end of the file
available(d, pos) ==
    IF pos.sector > d.size \div sectorSize THEN 0
    ELSE LET at == pos.sector * sectorSize + pos.offset
         IN  IF at >= d.size THEN 0 ELSE d.size - at

advance(pos, n) ==
    [sector |-> pos.sector + (pos.offset + n) \div sectorSize,
     offset |-> (pos.offset + n) % sectorSize]

\* regionFile.read(buffer, size): nothing is read from a stream that is not
\* good(); a read that ends early sets eofbit and failbit
streamRead(rf, d, size) ==
    IF rf.eofbit \/ rf.failbit
    THEN [gcount |-> 0, at |-> rf.pos, rf |-> [rf EXCEPT !.failbit = TRUE]]
    ELSE LET have == available(d, rf.pos)
             got == IF have >= size THEN size ELSE have
         IN  [gcount |-> got, at |-> rf.pos,
              rf |-> [rf EXCEPT !.pos = advance(@, got),
                                !.eofbit = (got # size),
                                !.failbit = (got # size)]]

\* the lambda readBytes of the constructor (badbit is never set here: the
\* model has no device error)
mcaReadBytes(rf, d, size) ==
    IF rf.eofbit THEN [gcount |-> 0, at |-> rf.pos, rf |-> rf]
    ELSE streamRead(rf, d, size)

RECURSIVE bigEndian(_, _, _, _)
\* readValue | (byte << bitOffset) over the bytes read at offset off
bigEndian(d, off, numBytes, acc) ==
    IF numBytes = 0 THEN acc
    ELSE bigEndian(d, off + 1, numBytes - 1, acc * 256 + fileByte(d, off))

\* the lambda readInt of the constructor
mcaReadInt(rf, d, numBytes) ==
    LET r == mcaReadBytes(rf, d, numBytes)
    IN  [val |-> IF r.gcount # numBytes THEN 0
                 ELSE bigEndian(d, r.at.sector * sectorSize + r.at.offset,
                                numBytes, 0),
         rf |-> r.rf]

\* regionFile.seekg(target), the target a whole number of sectors: eofbit is
\* cleared first; a stream with failbit set is left where it is; a negative
\* target fails
seekg(rf, target) ==
    IF rf.failbit THEN [rf EXCEPT !.eofbit = FALSE]
    ELSE IF target < 0 THEN [rf EXCEPT !.eofbit = FALSE, !.failbit = TRUE]
    ELSE [rf EXCEPT !.eofbit = FALSE, !.pos = [sector |-> target, offset |-> 0]]

\* unsigned int byteOffset = sectorOffset * sectorSize, as a number of
\* sectors: the product modulo 2^32 is (sectorOffset % 2^20) * sectorSize
byteOffsetSectors(sectorOffset) == sectorOffset % uintSectors

\* byteOffset > fileSize, for byteOffset = q * sectorSize
offsetPastEnd(q, size) == q > size \div sectorSize

\* the int product sectorOffset * sectorSize handed to seekg, in sectors: it
\* overflows int from 2^19 sectors on, which is undefined: the build may
\* wrap it to 32 bits or compute it in a wider register
seekTargets(sectorOffset) ==
    IF sectorOffset < intSectors THEN {sectorOffset}
    ELSE LET q == sectorOffset % uintSectors
         IN  {sectorOffset, IF q >= intSectors THEN q - uintSectors ELSE q}

\* what the bytes of chunkData are to zlib: size bytes were asked for at pos
\* and got of them read, the rest left zero
payloads(d, pos, size, got) ==
    IF size = 0 THEN {[plain |-> <<>>, fault |-> "trunc", clen |-> 0]}
    ELSE IF pos.sector \in DOMAIN d.chunks /\ pos.offset = 5
            /\ got >= d.chunks[pos.sector].stream.clen
         THEN {d.chunks[pos.sector].stream}
         ELSE {[plain |-> <<>>, fault |-> f, clen |-> size] :
                   f \in {"data", "trunc"}}

\* the values an element of the uninitialized part of buffer may hold
uninitBytes == {0, 255}

\* buffer[chunkIndex .. chunkIndex + 3] after bytesRead bytes were read
bufferEntries(d, read, chunkIndex) ==
    LET at(k) == IF chunkIndex + k < read THEN {fileByte(d, chunkIndex + k)}
                 ELSE uninitBytes
    IN  {<<a, b, c, e>> : a \in at(0), b \in at(1), c \in at(2), e \in at(3)}

(***************************************************************************)
(* The inputs the model draws from: NBT documents, region files, names.    *)
(***************************************************************************)
u16(n) == <<n \div 256, n % 256>>
u32(n) == <<n \div 16777216, (n \div 65536) % 256, (n \div 256) % 256, n % 256>>
i64(n) == Zeros(4) \o u32(n)
named(tag, name, payload) == <<tag>> \o u16(Len(name)) \o name \o payload

\* a root compound with the two time stamps
DocTimes ==
    named(tCompound, <<>>,
          named(tLong, Keys_lastUpdate, i64(1000000))
          \o named(tLong, Keys_inhabitedTime, i64(3600)) \o <<tEnd>>)

\* a root compound with a "Biomes" byte array holding 1, -127, 4
DocBiomes ==
    named(tCompound, <<>>,
          named(tByteArray, Keys_biome, u32(3) \o <<1, 129, 4>>) \o <<tEnd>>)

chunkOn(length, type, plain, fault, clen) ==
    [hdr |-> u32(length) \o <<type>>,
     stream |-> [plain |-> plain, fault |-> fault, clen |-> clen]]

\* the chunks of the region files of the model, by sector; sector 1 is zero
DiskChunks ==
    (2 :> chunkOn(61, 2, DocTimes, "none", 60))
    @@ (3 :> chunkOn(4096, 2, DocBiomes, "none", 4095))
    @@ (5 :> chunkOn(4097, 2, DocTimes, "none", 4096))
    @@ (7 :> chunkOn(31, 1, DocBiomes, "none", 30))
    @@ (8 :> chunkOn(41, 2, SubSeq(DocTimes, 1, 10), "data", 40))
    @@ (9 :> chunkOn(41, 2, <<>>, "dict", 40))
    @@ (10 :> chunkOn(41, 2, <<>>, "mem", 40))
    @@ (11 :> chunkOn(101, 2, DocBiomes, "none", 100))

\* the sectors of a whole file, and the sizes of the files of the model: whole,
\* cut in the last chunk's header, in its payload, right after its payload,
\* and three files that end inside the location table
DiskSectors == 12
FullSize == DiskSectors * sectorSize
CutSizes == {11 * sectorSize + 2, 11 * sectorSize + 5 + 50,
             11 * sectorSize + 5 + 100}
ShortSizes == {0, 6, 2048}

\* location table entries: sector offset in three bytes, sector count
entryAt(sector, count) ==
    <<sector \div 65536, (sector \div 256) % 256, sector % 256, count>>

EntryKinds ==
    {entryAt(1, 1), entryAt(2, 1), entryAt(2, 0), entryAt(3, 1),
     entryAt(5, 1), entryAt(5, 2), entryAt(7, 1), entryAt(8, 1),
     entryAt(9, 1), entryAt(10, 1), entryAt(11, 1),
     entryAt(DiskSectors, 1), entryAt(DiskSectors + 1, 1),
     entryAt(uintSectors + 2, 1), entryAt(intSectors, 1),
     <<0, 0, 0, 0>>}

FewKinds == {entryAt(2, 1), entryAt(3, 1), <<0, 0, 0, 0>>}

\* the table with entry a at index ia and entry b at index ib
tableOf(ia, a, ib, b) ==
    LET at(k, e) == IF e = <<0, 0, 0, 0>> THEN <<>> ELSE (k :> e)
    IN  at(ia, a) @@ at(ib, b)

Tables ==
    {tableOf(0, a, 33, b) : a \in EntryKinds, b \in FewKinds}
    \cup {tableOf(0, a, 33, b) : a \in FewKinds, b \in EntryKinds}
    \cup {tableOf(32, a, 1023, b) : a \in FewKinds, b \in FewKinds}

CutTables ==
    {tableOf(0, a, 33, b) : a \in {entryAt(11, 1), entryAt(2, 1)},
                            b \in {entryAt(11, 1), entryAt(2, 1)}}

ShortTables == {tableOf(0, entryAt(2, 1), 1, entryAt(3, 1)),
                tableOf(0, entryAt(0, 1), 1, entryAt(1, 1)),
                tableOf(0, entryAt(2, 1), 1, entryAt(256, 1))}

diskOf(size, table) ==
    [exists |-> TRUE, size |-> size, table |-> table, chunks |-> DiskChunks]

Disks ==
    {diskOf(FullSize, t) : t \in Tables}
    \cup {diskOf(sz, t) : sz \in CutSizes, t \in CutTables}
    \cup {diskOf(sz, t) : sz \in ShortSizes, t \in ShortTables}

NoDisk == [exists |-> FALSE, size |-> 0, table |-> <<>>, chunks |-> <<>>]

\* r.-1.2.mca, r.3.0.mca, r.-.0.mca, level.dat
GoodName == <<"r", ".", "-", "1", ".", "2", ".", "m", "c", "a">>
OtherNames ==
    {<<"r", ".", "3", ".", "0", ".", "m", "c", "a">>,
     <<"r", ".", "-", ".", "0", ".", "m", "c", "a">>,
     <<"l", "e", "v", "e", "l", ".", "d", "a", "t">>}

\* the characters of the names InitName draws
NameChars == {"r", ".", "-", "1", "2"}

RECURSIVE NamesUpTo(_)
NamesUpTo(n) ==
    IF n = 0 THEN {<<>>}
    ELSE LET shorter == NamesUpTo(n - 1)
         IN  shorter \cup {Append(w, c) : w \in shorter, c \in NameChars}

(***************************************************************************)
(* State.                                                                  *)
(***************************************************************************)
VARIABLES
    pc,             \* where the constructor of MCAFile stands
    mcaPath,        \* the file name
    disk,           \* the file on disk
    regionFile,     \* the stream: is_open, eofbit, failbit, pos
    regionX, regionY,
    bytesRead,      \* bytes of the location table that were read
    i,              \* index of the table entry of the loop
    loadedChunks,   \* MCAFile::loadedChunks
    chunkPos,       \* position of the chunk being loaded
    entry,          \* the locals of the loop body for the entry
    compressedData, \* the payload handed to ChunkNBT: its size and stream
    zlibStream, zResult,
    nbtData         \* the ChunkNBT object and the locals of getChunkData

\* the state of main, of its worker threads and of a MapImage
VARIABLES
    mainPc,         \* where main stands
    mapEdge,        \* width and height of the map in chunks
    chunkPx,        \* pixels per chunk
    numRegionFiles, \* regionFiles.size()
    numThreads,
    threadIndex,    \* the i of the loops that start and join the threads
    threadList,     \* per thread: where it stands, its i, the end of its
                    \* range and the chunks of its file still to draw
    regionCount, chunkCount,
    countLock, imageLock,   \* the mutexes
    fileLoads,      \* how often each of regionFiles was loaded by MCAFile
    mappers,        \* per mapper: the calls of drawChunk and of
                    \* finalProcessing, whether its image was written
    map,            \* a MapImage: its members and the pixels of its image
    mapCall         \* the last call on map and what it returned

fileVars == <<pc, mcaPath, disk, regionFile, regionX, regionY, bytesRead, i,
              loadedChunks, chunkPos, entry, compressedData, zlibStream,
              zResult, nbtData>>

fitVars == <<mapEdge, chunkPx>>

threadVars == <<numRegionFiles, numThreads, threadIndex, threadList,
                regionCount, chunkCount, countLock, imageLock, fileLoads,
                mappers>>

imageVars == <<map, mapCall>>

mainVars == <<mainPc, fitVars, threadVars, imageVars>>

vars == <<fileVars, mainVars>>

\* a std::mutex: whether a thread holds it, and which
unlocked == [held |-> FALSE, by |-> 0]

lockedBy(k) == [held |-> TRUE, by |-> k]

\* the five mappers of a MapCollector
Mappers == {"basic", "activity", "biome", "structure", "directory"}

\* a Mapper as constructed: nothing drawn, nothing written; the
\* ActivityMapper keeps the times in inhabitedTimes and draws them onto its
\* image in finalProcessing
newMapper ==
    [drawChunk |-> 0, finalProcessing |-> 0, stored |-> 0, drawn |-> 0,
     saved |-> FALSE]

noMap ==
    [mapWidth |-> 0, mapHeight |-> 0, chunkSize |-> 1, borderWidth |-> 0,
     width |-> 0, height |-> 0, pixels |-> <<>>]

noCall == [op |-> "none", x |-> 0, z |-> 0, result |-> <<0, 0, 0>>, calls |-> 0]

\* main has not come to its threads, and there is no MapImage
fitIdle == mapEdge = 0 /\ chunkPx = 1

threadsIdle ==
    /\ numRegionFiles = 0
    /\ numThreads = 1
    /\ threadIndex = 0
    /\ threadList = <<>>
    /\ regionCount = 0
    /\ chunkCount = 0
    /\ countLock = unlocked
    /\ imageLock = unlocked
    /\ fileLoads = <<>>
    /\ mappers = [m \in Mappers |-> newMapper]

imageIdle == map = noMap /\ mapCall = noCall

mainIdle == mainPc = "idle" /\ fitIdle /\ threadsIdle /\ imageIdle

\* the locals of the loop body before an entry is looked at
noEntry ==
    [why |-> "none", sectorOffset |-> 0, sectorCount |-> 0,
     chunkByteSize |-> 0, compressionType |-> 0, bytesRead |-> 0,
     header |-> FALSE, short |-> FALSE, at |-> [sector |-> 0, offset |-> 0]]

NoPayload == [size |-> 0, stream |-> [plain |-> <<>>, fault |-> "trunc", clen |-> 0]]

closedFile == [is_open |-> FALSE, eofbit |-> FALSE, failbit |-> FALSE,
               pos |-> [sector |-> 0, offset |-> 0]]

\* the state when the constructor of MCAFile is entered
Constructed(name, d) ==
    /\ pc = "ctor"
    /\ mcaPath = name
    /\ disk = d
    /\ regionFile = closedFile
    /\ regionX = 0
    /\ regionY = 0
    /\ bytesRead = 0
    /\ i = 0
    /\ loadedChunks = <<>>
    /\ chunkPos = [x |-> 0, z |-> 0]
    /\ entry = noEntry
    /\ compressedData = NoPayload
    /\ zlibStream = newStream
    /\ zResult = "Z_OK"
    /\ nbtData = newCall(<<>>, 0)
    /\ mainIdle

Init ==
    \/ \E d \in Disks \cup {NoDisk} : Constructed(GoodName, d)
    \/ \E name \in OtherNames :
           Constructed(name, diskOf(FullSize, tableOf(0, entryAt(2, 1),
                                                      33, entryAt(3, 1))))

(***************************************************************************)
(* MCAFile::MCAFile                                                        *)
(***************************************************************************)
\* the file name part: a name without coordinates returns, a substring that
\* is no number throws out of the constructor
ParseFileName ==
    /\ pc = "ctor"
    /\ LET c == ParseCoords(mcaPath)
       IN  /\ pc' = CASE c.res = "empty" -> "done"
                      [] c.res = "thrown" -> "thrown"
                      [] OTHER -> "open"
           /\ regionX' = c.x
           /\ regionY' = c.y
    /\ UNCHANGED <<mainVars, mcaPath, disk, regionFile, bytesRead, i, loadedChunks,
                   chunkPos, entry, compressedData, zlibStream, zResult, nbtData>>

\* std::ifstream regionFile(mcaPath), and the read of the location table
OpenFile ==
    /\ pc = "open"
    /\ IF ~disk.exists
       THEN /\ pc' = "done"
            /\ UNCHANGED <<regionFile, bytesRead>>
       ELSE LET r == mcaReadBytes([closedFile EXCEPT !.is_open = TRUE],
                                  disk, tableSize)
            IN  /\ pc' = "scan"
                /\ regionFile' = r.rf
                /\ bytesRead' = r.gcount
    /\ UNCHANGED <<mainVars, mcaPath, disk, regionX, regionY, i, loadedChunks,
                   chunkPos, entry, compressedData, zlibStream, zResult, nbtData>>

\* the loop goes on with the next entry, or the constructor returns
nextEntry(k) == IF k + 1 < numChunks THEN "scan" ELSE "done"

\* variants of three operators below, each wrong in one place
chunkLoadedAlways(e) == TRUE

chunkPosOfSwapped(rX, rY, k) == [x |-> rX + (k \div 32), z |-> rY + (k % 32)]

byteSectorCountFloor(chunkByteSize) == chunkByteSize \div sectorSize

\* bool chunkLoaded: some byte of the entry is not zero
chunkLoaded(e) == \E b \in 1..4 : e[b] # 0

\* chunkPos of the entry at index k
chunkPosOf(rX, rY, k) == [x |-> rX + (k % 32), z |-> rY + (k \div 32)]

\* size_t byteSectorCount: the sectors chunkByteSize bytes take
byteSectorCount(chunkByteSize) ==
    (chunkByteSize \div sectorSize)
    + (IF chunkByteSize % sectorSize > 0 THEN 1 ELSE 0)

\* byteOffset > fileSize
pastEnd(sectorOffset, size) ==
    offsetPastEnd(byteOffsetSectors(sectorOffset), size)

\* the body of the loop for entry k with buffer bytes e and seek target t:
\* the stream afterwards and the locals, with why the body is left ("absent",
\* "offset", "seek", "sectors", or "load" when a ChunkNBT is built), whether
\* the header was read in full, whether a read came short, and where the
\* payload was read
scanEntry(rf, d, read, k, e, t) ==
    LET chunkIndex == k * 4
        sectorOffset == e[1] * 65536 + e[2] * 256 + e[3]
        sectorCount == e[4]
        sought == seekg(rf, t)
        len == mcaReadInt(sought, d, 4)
        type == mcaReadInt(len.rf, d, 1)
        chunkByteSize == len.val
        data == mcaReadBytes(type.rf, d, chunkByteSize)
        hdrShort == len.rf.eofbit \/ type.rf.eofbit
        out(why, stream, size, ctype, got, short, at) ==
            [rf |-> stream,
             entry |-> [why |-> why, sectorOffset |-> sectorOffset,
                        sectorCount |-> sectorCount, chunkByteSize |-> size,
                        compressionType |-> ctype, bytesRead |-> got,
                        header |-> (why \in {"sectors", "load"} /\ ~hdrShort),
                        short |-> short, at |-> at]]
    IN  IF chunkIndex >= read \/ ~chunkLoaded(e)
        THEN [rf |-> rf, entry |-> [noEntry EXCEPT !.why = "absent"]]
        ELSE IF pastEnd(sectorOffset, d.size)
        THEN out("offset", rf, 0, 0, 0, FALSE, rf.pos)
        ELSE IF sought.failbit \/ sought.eofbit
        THEN out("seek", sought, 0, 0, 0, FALSE, rf.pos)
        ELSE IF byteSectorCount(chunkByteSize) > sectorCount
        THEN out("sectors", type.rf, chunkByteSize, type.val, 0, hdrShort,
                 rf.pos)
        ELSE out("load", data.rf, chunkByteSize, type.val, data.gcount,
                 data.rf.eofbit, data.at)

\* one pass of the loop over the location table, up to the construction of
\* the ChunkNBT
ScanEntry ==
    /\ pc = "scan"
    /\ \E e \in bufferEntries(disk, bytesRead, i * 4) :
       \E t \in seekTargets(e[1] * 65536 + e[2] * 256 + e[3]) :
           LET r == scanEntry(regionFile, disk, bytesRead, i, e, t)
           IN  /\ regionFile' = r.rf
               /\ entry' = r.entry
               /\ IF r.entry.why = "load"
                  THEN /\ \E st \in payloads(disk, r.entry.at,
                                             r.entry.chunkByteSize,
                                             r.entry.bytesRead) :
                              compressedData' =
                                  [size |-> r.entry.chunkByteSize,
                                   stream |-> st]
                       /\ chunkPos' = chunkPosOf(regionX, regionY, i)
                       /\ pc' = "ChunkNBT"
                       /\ i' = i
                  ELSE /\ pc' = nextEntry(i)
                       /\ i' = i + 1
                       /\ UNCHANGED <<compressedData, chunkPos>>
    /\ UNCHANGED <<mainVars, mcaPath, disk, regionX, regionY, bytesRead, loadedChunks,
                   zlibStream, zResult, nbtData>>

(***************************************************************************)
(* ChunkNBT::ChunkNBT                                                      *)
(***************************************************************************)
\* up to the loop: empty data returns at once, with nothing extracted
ConstructChunkNBT ==
    /\ pc = "ChunkNBT"
    /\ nbtData' = newCall(<<>>, 0)
    /\ zlibStream' = newStream
    /\ zResult' = "Z_OK"
    /\ pc' = IF compressedData.size = 0 THEN "getChunkData" ELSE "inflate"
    /\ UNCHANGED <<mainVars, mcaPath, disk, regionFile, regionX, regionY, bytesRead, i,
                   loadedChunks, chunkPos, entry, compressedData>>

\* while (zResult != Z_STREAM_END): one pass of the loop
InflateLoop ==
    /\ pc = "inflate"
    /\ zResult # "Z_STREAM_END"
    /\ \E r \in inflate(zlibStream, compressedData.stream) :
           LET p == inflatePass(nbtData.extractedData, r)
           IN  /\ zResult' = p.zResult
               /\ zlibStream' = p.zlibStream
               /\ nbtData' = [nbtData EXCEPT !.extractedData = p.extractedData]
    /\ UNCHANGED <<mainVars, pc, mcaPath, disk, regionFile, regionX, regionY, bytesRead,
                   i, loadedChunks, chunkPos, entry, compressedData>>

\* the loop is left, inflateEnd, and the constructor returns
InflateDone ==
    /\ pc = "inflate"
    /\ zResult = "Z_STREAM_END"
    /\ pc' = "getChunkData"
    /\ UNCHANGED <<mainVars, mcaPath, disk, regionFile, regionX, regionY, bytesRead, i,
                   loadedChunks, chunkPos, entry, compressedData, zlibStream, zResult,
                   nbtData>>

(***************************************************************************)
(* ChunkNBT::getChunkData                                                  *)
(***************************************************************************)
decoded(next) ==
    /\ nbtData' = next
    /\ pc' = IF next.phase = "thrown" THEN "thrown" ELSE pc
    /\ UNCHANGED <<mainVars, mcaPath, disk, regionFile, regionX, regionY, bytesRead, i,
                   loadedChunks, chunkPos, entry, compressedData, zlibStream, zResult>>

\* the body of the do-while loop
LoopBody ==
    /\ pc = "getChunkData"
    /\ nbtData.phase = "loop"
    /\ nbtData.frames = <<>>
    /\ decoded(loopBody(nbtData))

\* one element of an array or list
LoopElement ==
    /\ pc = "getChunkData"
    /\ nbtData.phase = "loop"
    /\ nbtData.frames # <<>>
    /\ top(nbtData.frames).left > 0
    /\ decoded(loopElement(nbtData))

\* an array or list is read to its end
LoopEnd ==
    /\ pc = "getChunkData"
    /\ nbtData.phase = "loop"
    /\ nbtData.frames # <<>>
    /\ top(nbtData.frames).left = 0
    /\ decoded(loopEnd(nbtData))

\* the ChunkData is built and returned, and MCAFile appends it
ReturnChunkData ==
    /\ pc = "getChunkData"
    /\ nbtData.phase = "exit"
    /\ loadedChunks' = Append(loadedChunks, chunkOf(nbtData, chunkPos))
    /\ nbtData' = [nbtData EXCEPT !.phase = "returned"]
    /\ pc' = nextEntry(i)
    /\ i' = i + 1
    /\ UNCHANGED <<mainVars, mcaPath, disk, regionFile, regionX, regionY, bytesRead,
                   chunkPos, entry, compressedData, zlibStream, zResult>>

Next ==
    \/ ParseFileName
    \/ OpenFile
    \/ ScanEntry
    \/ ConstructChunkNBT
    \/ InflateLoop
    \/ InflateDone
    \/ LoopBody
    \/ LoopElement
    \/ LoopEnd
    \/ ReturnChunkData

Spec == Init /\ [][Next]_vars

(***************************************************************************)
(* The constructor over every short file name: only the name part and the  *)
(* open act.                                                               *)
(***************************************************************************)
NameDisk == diskOf(FullSize, tableOf(0, entryAt(2, 1), 33, entryAt(3, 1)))

InitName == \E name \in NamesUpTo(MaxNameLen) : Constructed(name, NameDisk)

NextName ==
    \/ ParseFileName
    \/ OpenFile

SpecName == InitName /\ [][NextName]_vars

(***************************************************************************)
(* getChunkData over a catalogue of extracted buffers: two documents and   *)
(* every prefix of them, and buffers with a tag byte no tag has, at the    *)
(* top and as the kind of the elements of a list, and with a name length   *)
(* whose high bit is set.                                                  *)
(***************************************************************************)
Prefixes(doc) == {SubSeq(doc, 1, n) : n \in 0..Len(doc)}

\* a root compound holding a list of two shorts and a byte
DocList ==
    named(tCompound, <<>>,
          named(tList, <<120>>, <<tShort>> \o u32(2) \o u16(7) \o u16(9))
          \o named(tByte, <<121>>, <<5>>) \o <<tEnd>>)

BadTagBuffers ==
    {<<13>>, <<255, 0, 0>>,
     named(tCompound, <<>>, named(tByte, <<121>>, <<5>>) \o <<13, 0, 0, 0>>),
     named(tCompound, <<>>, named(tList, <<120>>, <<13>> \o u32(2) \o <<0, 0>>)),
     named(tCompound, <<>>, named(tList, <<120>>, <<200>> \o u32(0)) \o <<tEnd>>)}

BadNameBuffers ==
    {<<tByte, 255, 255, 1>>, <<tCompound, 128, 0>>,
     named(tCompound, <<>>, <<tString, 0, 0, 255, 254>>)}

\* text as bytes
txt_x == <<120>>
txt_a == <<97>>
txt_b == <<98>>
txt_z == <<122>>
txt_Other == <<79, 116, 104, 101, 114>>
txt_Village == <<86, 105, 108, 108, 97, 103, 101>>
txt_Mineshaft == <<77, 105, 110, 101, 115, 104, 97, 102, 116>>
txt_Foo == <<70, 111, 111>>

\* a root compound with an int array "Biomes" holding -300, 5, -1, 200
DocIntBiomes ==
    named(tCompound, <<>>,
          named(tIntArray, Keys_biome,
                u32(4) \o <<255, 255, 254, 212>> \o u32(5)
                \o <<255, 255, 255, 255>> \o u32(200))
          \o <<tEnd>>)

\* a root compound with a list "Biomes" of the shorts -2, 7
DocShortBiomes ==
    named(tCompound, <<>>,
          named(tList, Keys_biome,
                <<tShort>> \o u32(2) \o <<255, 254>> \o u16(7))
          \o <<tEnd>>)

\* a root compound with a list "Biomes" of two byte arrays, <<3>> and <<130>>
DocBiomeLists ==
    named(tCompound, <<>>,
          named(tList, Keys_biome,
                <<tByteArray>> \o u32(2) \o u32(1) \o <<3>> \o u32(1) \o <<130>>)
          \o <<tEnd>>)

\* longs of every standing: the time stamps twice, a long of another name, a
\* long array called "LastUpdate", a list of longs, and an "InhabitedTime"
\* whose sign bit is set
NegativeLong == <<255, 255, 255, 255, 255, 255, 255, 246>>

DocLongs ==
    named(tCompound, <<>>,
          named(tLong, Keys_lastUpdate, i64(77))
          \o named(tLong, txt_Other, i64(5))
          \o named(tLongArray, Keys_lastUpdate, u32(1) \o i64(9))
          \o named(tList, Keys_inhabitedTime, <<tLong>> \o u32(2) \o i64(3) \o i64(4))
          \o named(tLong, Keys_lastUpdate, i64(1000000))
          \o named(tLong, Keys_inhabitedTime, NegativeLong)
          \o <<tEnd>>)

\* the children a structure compound may hold, N = 0 to 3 of several kinds
StructChildren ==
    {<<>>,
     named(tByte, txt_a, <<1>>),
     named(tLongArray, txt_a, u32(1) \o i64(9)),
     named(tByte, txt_a, <<1>>) \o named(tShort, txt_b, u16(2)),
     named(tCompound, txt_a, named(tByte, txt_b, <<1>>) \o <<tEnd>>)
         \o named(tList, txt_b, <<tShort>> \o u32(2) \o u16(7) \o u16(9))
         \o named(tString, txt_z, u16(1) \o txt_x),
     named(tCompound, txt_Village, named(tByte, txt_b, <<1>>) \o <<tEnd>>)
         \o named(tInt, txt_b, u32(6))}

StructNames == {txt_Village, txt_Mineshaft, txt_Foo}

\* Structures { References { name { children } } } in a root compound
DocStruct(name, children) ==
    named(tCompound, <<>>,
          named(tCompound, Keys_structure,
                named(tCompound, Keys_structureRefs,
                      named(tCompound, name, children \o <<tEnd>>)
                      \o <<tEnd>>)
                \o <<tEnd>>)
          \o <<tEnd>>)

StructDocs == {DocStruct(n, c) : n \in StructNames, c \in StructChildren}

\* References { Village { a }, Mineshaft { a, b } } in Structures
DocTwoStructs ==
    named(tCompound, <<>>,
          named(tCompound, Keys_structure,
                named(tCompound, Keys_structureRefs,
                      named(tCompound, txt_Village,
                            named(tByte, txt_a, <<1>>) \o <<tEnd>>)
                      \o named(tCompound, txt_Mineshaft,
                               named(tByte, txt_a, <<1>>)
                               \o named(tShort, txt_b, u16(2)) \o <<tEnd>>)
                      \o <<tEnd>>)
                \o <<tEnd>>)
          \o <<tEnd>>)

\* a list of two compounds, then a byte
DocListOfCompounds ==
    named(tCompound, <<>>,
          named(tList, txt_x,
                <<tCompound>> \o u32(2)
                \o named(tByte, txt_a, <<1>>) \o <<tEnd>>
                \o named(tByte, txt_b, <<2>>) \o <<tEnd>>)
          \o named(tByte, txt_z, <<3>>) \o <<tEnd>>)

\* a list of two lists of one compound each, then a byte
DocListOfLists ==
    named(tCompound, <<>>,
          named(tList, txt_x,
                <<tList>> \o u32(2)
                \o <<tCompound>> \o u32(1)
                \o named(tByte, <<>>, <<0>>) \o <<tEnd>>
                \o <<tCompound>> \o u32(1)
                \o named(tByte, txt_b, <<2>>) \o <<tEnd>>)
          \o named(tByte, txt_z, <<3>>) \o <<tEnd>>)

\* a byte whose name holds a zero byte, and a string whose text holds one
DocZeroText ==
    named(tCompound, <<>>,
          named(tByte, <<97, 0, 98>>, <<5>>)
          \o named(tString, txt_z, u16(3) \o <<104, 0, 105>>)
          \o <<tEnd>>)

\* a compound in the given parent: name { children }
inCompound(name, children) == named(tCompound, name, children \o <<tEnd>>)

\* a Village with one byte in References in Structures
DocVillage == DocStruct(txt_Village, named(tByte, txt_a, <<1>>))

\* References { Village { a } } in the root compound, with no Structures
DocRefsAtRoot ==
    inCompound(<<>>,
        inCompound(Keys_structureRefs,
            inCompound(txt_Village, named(tByte, txt_a, <<1>>))))

\* Structures { x { References { Village { a } } } }
DocRefsDeep ==
    inCompound(<<>>,
        inCompound(Keys_structure,
            inCompound(txt_x,
                inCompound(Keys_structureRefs,
                    inCompound(txt_Village, named(tByte, txt_a, <<1>>))))))

\* Structures { References { Village { References { } }, Mineshaft { a } } }
DocRefsInside ==
    inCompound(<<>>,
        inCompound(Keys_structure,
            inCompound(Keys_structureRefs,
                inCompound(txt_Village, inCompound(Keys_structureRefs, <<>>))
                \o inCompound(txt_Mineshaft, named(tByte, txt_a, <<1>>)))))

\* Structures { References { Structures { References { } }, Village { a } } }
DocRefsNested ==
    inCompound(<<>>,
        inCompound(Keys_structure,
            inCompound(Keys_structureRefs,
                inCompound(Keys_structure,
                           inCompound(Keys_structureRefs, <<>>))
                \o inCompound(txt_Village, named(tByte, txt_a, <<1>>)))))

\* x { Structures { References { Village { References { } } } } } and then
\* z { Structures { References { b, Mineshaft { a } } } }
DocRefsTwice ==
    inCompound(<<>>,
        inCompound(txt_x,
            inCompound(Keys_structure,
                inCompound(Keys_structureRefs,
                    inCompound(txt_Village,
                               inCompound(Keys_structureRefs, <<>>)))))
        \o inCompound(txt_z,
               inCompound(Keys_structure,
                   inCompound(Keys_structureRefs,
                       named(tByte, txt_b, <<2>>)
                       \o inCompound(txt_Mineshaft,
                                     named(tByte, txt_a, <<1>>))))))

RefsDocs ==
    {DocRefsAtRoot, DocRefsDeep, DocRefsInside, DocRefsNested, DocRefsTwice}

\* the documents that are well formed
WellFormedDocs ==
    {DocTimes, DocBiomes, DocList, DocIntBiomes, DocShortBiomes,
     DocBiomeLists, DocLongs, DocListOfCompounds, DocListOfLists, DocZeroText}
    \cup StructDocs \cup {DocTwoStructs} \cup RefsDocs

Buffers ==
    Prefixes(DocTimes) \cup Prefixes(DocBiomes) \cup Prefixes(DocList)
    \cup Prefixes(DocListOfCompounds) \cup Prefixes(DocVillage)
    \cup WellFormedDocs \cup BadTagBuffers \cup BadNameBuffers

InitNBT ==
    \E buf \in Buffers :
        /\ pc = "getChunkData"
        /\ mcaPath = GoodName
        /\ disk = NameDisk
        /\ regionFile = closedFile
        /\ regionX = -32
        /\ regionY = 64
        /\ bytesRead = tableSize
        /\ i = 0
        /\ loadedChunks = <<>>
        /\ chunkPos = chunkPosOf(-32, 64, 0)
        /\ entry = noEntry
        /\ compressedData = NoPayload
        /\ zlibStream = newStream
        /\ zResult = "Z_STREAM_END"
        /\ nbtData = newCall(buf, 0)
        /\ mainIdle

NextNBT ==
    \/ LoopBody
    \/ LoopElement
    \/ LoopEnd
    \/ ReturnChunkData

SpecNBT == InitNBT /\ [][NextNBT]_vars

\* a step of NextNBT can be taken: the call has neither returned nor thrown
decoding == pc = "getChunkData" /\ nbtData.phase \in {"loop", "exit"}

\* the call runs on, being sequential code that nothing holds up: weak
\* fairness of NextNBT, written out with decoding for its enabledness (every
\* step of NextNBT changes vars, and no other step does)
SpecNBTFair == SpecNBT /\ ([]<>(~decoding) \/ []<><<TRUE>>_vars)

(***************************************************************************)
(* getChunkData called a second time on the same ChunkNBT object: the      *)
(* locals are declared anew, extractedData and dataIndex are members and   *)
(* stay as the first call left them.                                       *)
(***************************************************************************)
GetChunkDataAgain ==
    /\ nbtData.phase = "returned"
    /\ Len(loadedChunks) = 1
    /\ pc' = "getChunkData"
    /\ nbtData' = newCall(nbtData.extractedData, nbtData.dataIndex)
    /\ UNCHANGED <<mainVars, mcaPath, disk, regionFile, regionX, regionY, bytesRead, i,
                   loadedChunks, chunkPos, entry, compressedData, zlibStream,
                   zResult>>

NextRepeat ==
    \/ LoopBody
    \/ LoopElement
    \/ LoopEnd
    \/ ReturnChunkData
    \/ GetChunkDataAgain

SpecRepeat == InitNBT /\ [][NextRepeat]_vars

(***************************************************************************)
(* Two ChunkNBT objects built one after the other from the same compressed *)
(* bytes, each asked once for its ChunkData at the same position.          *)
(***************************************************************************)
\* the stream after the header and payload of a chunk at sector 2 were read
afterHeader ==
    [is_open |-> TRUE, eofbit |-> FALSE, failbit |-> FALSE,
     pos |-> [sector |-> 2, offset |-> 66]]

\* whole zlib streams of the documents of the catalogue
TwiceStreams ==
    {[plain |-> doc, fault |-> "none", clen |-> 60] :
         doc \in WellFormedDocs \cup BadTagBuffers}

TwicePayloads ==
    {[size |-> 61, stream |-> st] : st \in TwiceStreams} \cup {NoPayload}

InitTwice ==
    \E payload \in TwicePayloads :
        /\ pc = "ChunkNBT"
        /\ mcaPath = GoodName
        /\ disk = NameDisk
        /\ regionFile = afterHeader
        /\ regionX = -32
        /\ regionY = 64
        /\ bytesRead = tableSize
        /\ i = 0
        /\ loadedChunks = <<>>
        /\ chunkPos = chunkPosOf(-32, 64, 0)
        /\ entry = noEntry
        /\ compressedData = payload
        /\ zlibStream = newStream
        /\ zResult = "Z_OK"
        /\ nbtData = newCall(<<>>, 0)
        /\ mainIdle

\* ChunkNBT nbtData(chunkData) once more, from the same chunkData
DecodeAgain ==
    /\ pc = "scan"
    /\ Len(loadedChunks) = 1
    /\ pc' = "ChunkNBT"
    /\ UNCHANGED <<mainVars, mcaPath, disk, regionFile, regionX, regionY, bytesRead, i,
                   loadedChunks, chunkPos, entry, compressedData, zlibStream,
                   zResult, nbtData>>

NextTwice ==
    \/ ConstructChunkNBT
    \/ InflateLoop
    \/ InflateDone
    \/ LoopBody
    \/ LoopElement
    \/ LoopEnd
    \/ ReturnChunkData
    \/ DecodeAgain

SpecTwice == InitTwice /\ [][NextTwice]_vars

(***************************************************************************)
(* main: the size of the map.  The scan of the region directory leaves     *)
(* maxDistanceFromOrigin, which is 0 when no file was accepted and lies    *)
(* between 1 and worldBorder otherwise; chunkPx is defaultChunkPx or what  *)
(* atoi made of the argument.                                              *)
(***************************************************************************)
worldBorder == 1600
defaultChunkPx == 2
minSize == 256
maxSize == 10000

\* chunkPx is not counted beyond this
MaxChunkPx == 300

MaxDistances == {0, 1, 20, 64, 1000, worldBorder}
StartChunkPx == {-2, 0, 1, defaultChunkPx, 7, 200}

\* no MCAFile is under construction
noFile ==
    /\ pc = "none"
    /\ mcaPath = GoodName
    /\ disk = NoDisk
    /\ regionFile = closedFile
    /\ regionX = 0
    /\ regionY = 0
    /\ bytesRead = 0
    /\ i = 0
    /\ loadedChunks = <<>>
    /\ chunkPos = [x |-> 0, z |-> 0]
    /\ entry = noEntry
    /\ compressedData = NoPayload
    /\ zlibStream = newStream
    /\ zResult = "Z_OK"
    /\ nbtData = newCall(<<>>, 0)

\* mapEdge = maxDistanceFromOrigin * 2, before the first loop
InitFit ==
    \E maxDistanceFromOrigin \in MaxDistances, px \in StartChunkPx :
        /\ noFile
        /\ mainPc = "grow"
        /\ mapEdge = maxDistanceFromOrigin * 2
        /\ chunkPx = px
        /\ threadsIdle
        /\ imageIdle

\* while ((mapEdge * chunkPx) < minSize) chunkPx++
GrowChunkPx ==
    /\ mainPc = "grow"
    /\ IF mapEdge * chunkPx < minSize
       THEN /\ chunkPx < MaxChunkPx
            /\ chunkPx' = chunkPx + 1
            /\ UNCHANGED mainPc
       ELSE /\ mainPc' = "shrink"
            /\ UNCHANGED chunkPx
    /\ UNCHANGED <<fileVars, mapEdge, threadVars, imageVars>>

\* while ((mapEdge * chunkPx) > maxSize && chunkPx > 1) chunkPx--
ShrinkChunkPx ==
    /\ mainPc = "shrink"
    /\ IF mapEdge * chunkPx > maxSize /\ chunkPx > 1
       THEN /\ chunkPx' = chunkPx - 1
            /\ UNCHANGED mainPc
       ELSE /\ mainPc' = "crop"
            /\ UNCHANGED chunkPx
    /\ UNCHANGED <<fileVars, mapEdge, threadVars, imageVars>>

\* if ((mapEdge * chunkPx) > maxSize) mapEdge = maxSize
CropMap ==
    /\ mainPc = "crop"
    /\ mapEdge' = IF mapEdge * chunkPx > maxSize THEN maxSize ELSE mapEdge
    /\ mainPc' = "fitted"
    /\ UNCHANGED <<fileVars, chunkPx, threadVars, imageVars>>

NextFit ==
    \/ GrowChunkPx
    \/ ShrinkChunkPx
    \/ CropMap

SpecFit == InitFit /\ [][NextFit]_vars

(***************************************************************************)
(* main: the worker threads.  Each thread runs readRegions over its range  *)
(* of regionFiles; what MCAFile makes of a file is the number of chunks it *)
(* loaded.  A lock_guard takes its mutex in one step and gives it back at  *)
(* the end of its block.                                                   *)
(***************************************************************************)
MaxFiles == 3
MaxHardwareThreads == 3
MaxFileChunks == 2

\* a variant of lockable that lets every thread pass
lockableAlways(mutex) == TRUE

\* std::mutex: lock() returns when no thread holds the mutex
lockable(mutex) == ~mutex.held

\* const size_t filesPerThread = numRegionFiles / numThreads
filesPerThread == numRegionFiles \div numThreads

Threads == DOMAIN threadList

notStarted == [pc |-> "none", i |-> 0, end |-> 0, entryChunks |-> 0]

\* std::thread(readRegions, startIndex, numToRead)
readRegions(startIndex, numToRead) ==
    [pc |-> "for", i |-> startIndex, end |-> startIndex + numToRead,
     entryChunks |-> 0]

\* the map is fitted and the MapCollector built; hardware_concurrency() may
\* return 0, and then one thread is used
InitMain ==
    \E n \in 0..MaxFiles, hw \in 0..MaxHardwareThreads :
        /\ noFile
        /\ mainPc = "start"
        /\ mapEdge = 2 * worldBorder
        /\ chunkPx = defaultChunkPx
        /\ numRegionFiles = n
        /\ numThreads = (IF hw = 0 THEN 1 ELSE hw)
        /\ threadIndex = 0
        /\ threadList = [k \in 0..((IF hw = 0 THEN 1 ELSE hw) - 1)
                            |-> notStarted]
        /\ regionCount = 0
        /\ chunkCount = 0
        /\ countLock = unlocked
        /\ imageLock = unlocked
        /\ fileLoads = [f \in 0..(n - 1) |-> 0]
        /\ mappers = [m \in Mappers |-> newMapper]
        /\ imageIdle

\* the loop that starts the threads
StartThread ==
    /\ mainPc = "start"
    /\ IF threadIndex < numThreads
       THEN /\ threadList' =
                   [threadList EXCEPT ![threadIndex] =
                        readRegions(threadIndex * filesPerThread,
                                    filesPerThread)]
            /\ threadIndex' = threadIndex + 1
            /\ UNCHANGED mainPc
       ELSE /\ mainPc' = "join"
            /\ threadIndex' = 0
            /\ UNCHANGED threadList
    /\ UNCHANGED <<fileVars, fitVars, numRegionFiles, numThreads, regionCount,
                   chunkCount, countLock, imageLock, fileLoads, mappers,
                   imageVars>>

\* for (int i = startIndex; i < startIndex + numToRead; i++): the file is
\* loaded, or the thread ends
LoadRegion ==
    /\ \E k \in Threads :
        /\ threadList[k].pc = "for"
        /\ IF threadList[k].i < threadList[k].end
           THEN \E chunks \in 0..MaxFileChunks :
                    /\ fileLoads' = [fileLoads EXCEPT ![threadList[k].i] = @ + 1]
                    /\ threadList' =
                           [threadList EXCEPT ![k].pc = "updateCounts",
                                              ![k].entryChunks = chunks]
           ELSE /\ threadList' = [threadList EXCEPT ![k].pc = "end"]
                /\ UNCHANGED fileLoads
    /\ UNCHANGED <<fileVars, mainPc, fitVars, numRegionFiles, numThreads,
                   threadIndex, regionCount, chunkCount, countLock, imageLock,
                   mappers, imageVars>>

\* updateCounts: std::lock_guard<std::mutex> lock(countLock)
LockCounts ==
    /\ \E k \in Threads :
        /\ threadList[k].pc = "updateCounts"
        /\ lockable(countLock)
        /\ countLock' = lockedBy(k)
        /\ threadList' = [threadList EXCEPT ![k].pc = "counting"]
    /\ UNCHANGED <<fileVars, mainPc, fitVars, numRegionFiles, numThreads,
                   threadIndex, regionCount, chunkCount, imageLock, fileLoads,
                   mappers, imageVars>>

\* updateCounts(1, entryChunks.size()): the body, and the end of the block
UpdateCounts ==
    /\ \E k \in Threads :
        /\ threadList[k].pc = "counting"
        /\ regionCount' = regionCount + 1
        /\ chunkCount' = chunkCount + threadList[k].entryChunks
        /\ countLock' = unlocked
        /\ threadList' = [threadList EXCEPT ![k].pc = "chunks"]
    /\ UNCHANGED <<fileVars, mainPc, fitVars, numRegionFiles, numThreads,
                   threadIndex, imageLock, fileLoads, mappers, imageVars>>

\* for (const ChunkData& chunk : entryChunks): the lock_guard of imageLock,
\* or the next file
LockImage ==
    /\ \E k \in Threads :
        /\ threadList[k].pc = "chunks"
        /\ IF threadList[k].entryChunks > 0
           THEN /\ lockable(imageLock)
                /\ imageLock' = lockedBy(k)
                /\ threadList' = [threadList EXCEPT ![k].pc = "drawChunk"]
           ELSE /\ threadList' = [threadList EXCEPT ![k].pc = "for",
                                                    ![k].i = @ + 1]
                /\ UNCHANGED imageLock
    /\ UNCHANGED <<fileVars, mainPc, fitVars, numRegionFiles, numThreads,
                   threadIndex, regionCount, chunkCount, countLock, fileLoads,
                   mappers, imageVars>>

\* MapCollector::drawChunk: every mapper's drawChunk; the ActivityMapper
\* stores the time and draws nothing, the others draw
drawChunk(ms) ==
    [m \in Mappers |->
        IF m = "activity"
        THEN [ms[m] EXCEPT !.drawChunk = @ + 1, !.stored = @ + 1]
        ELSE [ms[m] EXCEPT !.drawChunk = @ + 1, !.drawn = @ + 1]]

\* mappers.drawChunk(chunk), and the end of the block
DrawChunk ==
    /\ \E k \in Threads :
        /\ threadList[k].pc = "drawChunk"
        /\ mappers' = drawChunk(mappers)
        /\ imageLock' = unlocked
        /\ threadList' = [threadList EXCEPT ![k].pc = "chunks",
                                            ![k].entryChunks = @ - 1]
    /\ UNCHANGED <<fileVars, mainPc, fitVars, numRegionFiles, numThreads,
                   threadIndex, regionCount, chunkCount, countLock, fileLoads,
                   imageVars>>

\* threadList[i].join(), for every thread in turn
JoinThread ==
    /\ mainPc = "join"
    /\ IF threadIndex < numThreads
       THEN /\ threadList[threadIndex].pc = "end"
            /\ threadIndex' = threadIndex + 1
            /\ UNCHANGED mainPc
       ELSE /\ mainPc' = "save"
            /\ UNCHANGED threadIndex
    /\ UNCHANGED <<fileVars, fitVars, numRegionFiles, numThreads, threadList,
                   regionCount, chunkCount, countLock, imageLock, fileLoads,
                   mappers, imageVars>>

\* MapCollector::saveMapFile: every mapper's saveMapFile, which is
\* map.saveImage()
saveMapFile(ms) == [m \in Mappers |-> [ms[m] EXCEPT !.saved = TRUE]]

\* mappers.saveMapFile()
SaveMapFile ==
    /\ mainPc = "save"
    /\ mappers' = saveMapFile(mappers)
    /\ mainPc' = "done"
    /\ UNCHANGED <<fileVars, fitVars, numRegionFiles, numThreads, threadIndex,
                   threadList, regionCount, chunkCount, countLock, imageLock,
                   fileLoads, imageVars>>

NextMain ==
    \/ StartThread
    \/ LoadRegion
    \/ LockCounts
    \/ UpdateCounts
    \/ LockImage
    \/ DrawChunk
    \/ JoinThread
    \/ SaveMapFile

SpecMain == InitMain /\ [][NextMain]_vars

(***************************************************************************)
(* MapImage.  The image is the colour of each of its pixels.  The          *)
(* coordinates of the model are small, so that the conversions between     *)
(* int and size_t of the source leave every value as it is.                *)
(***************************************************************************)
borderDivisor == 19

MaxImageCalls == 2

MapWidths == {2, 3, 20}
MapHeights == {2}
ChunkSizes == {1, 2}
ChunkXs == {-12, -11, -10, -2, -1, 0, 1, 2, 9, 10, 11, 12}
ChunkZs == {-2, -1, 0, 1}

\* Pixel(0, 0, 0), the colour drawn by the calls of the model, and the
\* colour of the background texture
black == <<0, 0, 0>>
red == <<255, 0, 0>>
mapEmptyLight == <<166, 148, 116>>

\* MapImage::MapImage.  The background texture read from the image file is
\* taken to be of the one colour mapEmptyLight.
newMapImage(widthInChunks, heightInChunks, pixelsPerChunk, drawBackground) ==
    LET chunkSize == pixelsPerChunk
        largerSize == Max({widthInChunks * chunkSize,
                           heightInChunks * chunkSize})
        borderPixelWidth ==
            IF drawBackground THEN largerSize \div borderDivisor ELSE 0
        imageWidth == widthInChunks * chunkSize + 2 * borderPixelWidth
        imageHeight == heightInChunks * chunkSize + 2 * borderPixelWidth
    IN  [mapWidth |-> widthInChunks, mapHeight |-> heightInChunks,
         chunkSize |-> chunkSize,
         borderWidth |-> borderPixelWidth \div chunkSize,
         width |-> imageWidth, height |-> imageHeight,
         pixels |-> [p \in (0..(imageWidth - 1)) \X (0..(imageHeight - 1))
                        |-> IF drawBackground THEN mapEmptyLight ELSE black]]

\* MapImage::chunkToPixel
chunkToPixel(m, position) ==
    LET pixelPos ==
            [x |-> (m.mapWidth \div 2 + position.x) * m.chunkSize
                       + m.borderWidth,
             z |-> (m.mapHeight \div 2 + position.z) * m.chunkSize
                       + m.borderWidth]
    IN  IF \/ pixelPos.x < 0
           \/ pixelPos.x >= m.width
           \/ pixelPos.z < 0
           \/ pixelPos.z >= m.height
        THEN [x |-> -1, z |-> -1]
        ELSE pixelPos

\* MapImage::getChunkColor
getChunkColor(m, xPos, zPos) ==
    LET pixelPos == chunkToPixel(m, [x |-> xPos, z |-> zPos])
    IN  IF pixelPos.x < 0 \/ pixelPos.z < 0 THEN black
        ELSE m.pixels[<<pixelPos.x, pixelPos.z>>]

\* MapImage::setChunkColor: the pixels the two loops set
setChunkColor(m, xPos, zPos, color) ==
    LET pixelPos == chunkToPixel(m, [x |-> xPos, z |-> zPos])
        painted == {<<x, z>> \in
                        (pixelPos.x..(pixelPos.x + m.chunkSize - 1))
                            \X (pixelPos.z..(pixelPos.z + m.chunkSize - 1)) :
                    /\ ~(z < 0 \/ z >= m.height)
                    /\ ~(x < 0 \/ x >= m.width)}
    IN  IF pixelPos.x < 0 \/ pixelPos.z < 0 THEN m
        ELSE [m EXCEPT !.pixels =
                  [p \in DOMAIN m.pixels \cup painted
                       |-> IF p \in painted THEN color ELSE m.pixels[p]]]

InitImage ==
    \E w \in MapWidths, h \in MapHeights, px \in ChunkSizes,
       drawBackground \in BOOLEAN :
        /\ noFile
        /\ mainPc = "image"
        /\ fitIdle
        /\ threadsIdle
        /\ map = newMapImage(w, h, px, drawBackground)
        /\ mapCall = noCall

\* map.setChunkColor(x, z, red)
SetChunkColor ==
    /\ mainPc = "image"
    /\ mapCall.calls < MaxImageCalls
    /\ \E x \in ChunkXs, z \in ChunkZs :
           /\ map' = setChunkColor(map, x, z, red)
           /\ mapCall' = [op |-> "setChunkColor", x |-> x, z |-> z,
                          result |-> black, calls |-> mapCall.calls + 1]
    /\ UNCHANGED <<fileVars, mainPc, fitVars, threadVars>>

\* map.getChunkColor(x, z)
GetChunkColor ==
    /\ mainPc = "image"
    /\ mapCall.calls < MaxImageCalls
    /\ \E x \in ChunkXs, z \in ChunkZs :
           mapCall' = [op |-> "getChunkColor", x |-> x, z |-> z,
                       result |-> getChunkColor(map, x, z),
                       calls |-> mapCall.calls + 1]
    /\ UNCHANGED <<fileVars, mainPc, fitVars, threadVars, map>>

NextImage ==
    \/ SetChunkColor
    \/ GetChunkColor

SpecImage == InitImage /\ [][NextImage]_vars

(***************************************************************************)
(* Properties of the constructor of MCAFile.                               *)
(***************************************************************************)
\* the stream right after the whole location table was read
afterTable ==
    [is_open |-> TRUE, eofbit |-> FALSE, failbit |-> FALSE,
     pos |-> [sector |-> 1, offset |-> 0]]

\* entry k of the file, taken alone from a stream in order: its offset lies in
\* the file, its header and payload are read in full, and the payload is a
\* whole zlib stream
wellFormedAlone(k) ==
    LET e == tableEntry(disk, k)
        sectorOffset == e[1] * 65536 + e[2] * 256 + e[3]
        r == scanEntry(afterTable, disk, tableSize, k, e, sectorOffset).entry
    IN  /\ sectorOffset < DiskSectors
        /\ r.why = "load"
        /\ ~r.short
        /\ r.compressionType = 2
        /\ r.at.sector \in DOMAIN disk.chunks
        /\ disk.chunks[r.at.sector].stream.fault = "none"
        /\ r.bytesRead >= disk.chunks[r.at.sector].stream.clen

\* a ChunkData at the position of table index k is in loadedChunks
loadedAt(k) ==
    \E n \in 1..Len(loadedChunks) :
        loadedChunks[n].chunkPos = chunkPosOf(regionX, regionY, k)

\* the table index of the entry a ChunkData of this file comes from
indexOf(chunk) ==
    (chunk.chunkPos.x - regionX) + 32 * (chunk.chunkPos.z - regionY)

wholeTable == disk.exists /\ disk.size >= tableSize

\* C1: whether an entry yields a ChunkData depends on that entry alone: every
\* entry the loop has passed that is well formed taken alone has its
\* ChunkData in loadedChunks, whatever happened to the entries before it
C1_EntriesIsolated ==
    (wholeTable /\ pc \notin {"ctor", "open"}) =>
        \A k \in DOMAIN disk.table :
            (k < i /\ wellFormedAlone(k)) => loadedAt(k)

\* C2: an entry whose four table bytes are all zero never yields a ChunkData:
\* every ChunkData of loadedChunks stands at the position of an entry with a
\* non-zero byte, and an all-zero table leaves loadedChunks empty
C2_AbsentNeverLoaded ==
    wholeTable =>
        /\ \A n \in 1..Len(loadedChunks) :
               tableEntry(disk, indexOf(loadedChunks[n])) # <<0, 0, 0, 0>>
        /\ disk.table = <<>> => loadedChunks = <<>>

\* the loop is over, it passed the zero entry at index 0 and loaded entry 33
C2_Witness ==
    /\ pc = "done"
    /\ wholeTable
    /\ tableEntry(disk, 0) = <<0, 0, 0, 0>>
    /\ tableEntry(disk, 33) # <<0, 0, 0, 0>>
    /\ Len(loadedChunks) = 1
    /\ loadedAt(33)

\* C3: an entry whose header or payload bytes could not all be read is
\* skipped: no ChunkData is appended for it
C3_ShortReadSkipped ==
    [][loadedChunks' # loadedChunks => ~entry.short]_vars

\* C4: an entry whose header was read in full and whose compression type is
\* not 2 is skipped: its payload is neither decompressed nor decoded
C4_OnlyZlibDecoded ==
    (pc \in {"ChunkNBT", "inflate", "getChunkData"} /\ entry.header)
        => entry.compressionType = 2

\* C5: an entry is sought, read or decoded only when its sector offset s has
\* s * 4096 < file size, the product taken exactly
C5_OffsetInsideFile ==
    entry.why \in {"seek", "sectors", "load"}
        => entry.sectorOffset < (disk.size + sectorSize - 1) \div sectorSize

\* C6: an entry with declared payload length L and sector count c yields a
\* ChunkData only if ceil(L / 4096) <= c
C6_FitsSectorCount ==
    [][loadedChunks' # loadedChunks =>
           (entry.chunkByteSize + 4095) \div 4096 <= entry.sectorCount]_vars

\* the entry with 4097 bytes declared and a sector count of one was passed
\* by, and the entry after it, 61 bytes in one sector, was loaded
C6_Witness ==
    /\ pc = "done"
    /\ tableEntry(disk, 0) = entryAt(5, 1)
    /\ tableEntry(disk, 33) = entryAt(2, 1)
    /\ Len(loadedChunks) = 1
    /\ loadedAt(33)

\* the region coordinates the file name stands for
nameRegion ==
    IF mcaPath = GoodName THEN [x |-> -1, z |-> 2] ELSE [x |-> 3, z |-> 0]

\* the table index a position belongs to in the region of the file name
regionIndex(pos) ==
    (pos.x - nameRegion.x * 32) + 32 * (pos.z - nameRegion.z * 32)

\* every ChunkData lies in the region of the file name, and the sequence is in
\* strictly increasing order of table index
C8_Ordered ==
    /\ Len(loadedChunks) <= 1024
    /\ \A n \in 1..Len(loadedChunks) :
           LET pos == loadedChunks[n].chunkPos
           IN  /\ pos.x - nameRegion.x * 32 \in 0..31
               /\ pos.z - nameRegion.z * 32 \in 0..31
               /\ regionIndex(pos) < i
               /\ \A m \in 1..(n - 1) :
                      /\ regionIndex(loadedChunks[m].chunkPos)
                             < regionIndex(pos)
                      /\ loadedChunks[m].chunkPos # pos

\* the ChunkData of table index i is appended at the end, at the position of i
C8_Appended ==
    loadedChunks' # loadedChunks =>
        /\ Len(loadedChunks') = Len(loadedChunks) + 1
        /\ SubSeq(loadedChunks', 1, Len(loadedChunks)) = loadedChunks
        /\ loadedChunks'[Len(loadedChunks')].chunkPos
               = [x |-> nameRegion.x * 32 + (i % 32),
                  z |-> nameRegion.z * 32 + (i \div 32)]

\* C8: for a file of region (rx, rz) the ChunkData of table index i has the
\* position (rx * 32 + i mod 32, rz * 32 + i div 32); loadedChunks is in
\* strictly increasing order of table index, holds at most 1024 elements and
\* no two of them share a position
C8_PositionsInOrder == []C8_Ordered /\ [][C8_Appended]_vars

\* the entries at the indices 32 and 1023 were both loaded
C8_Witness ==
    /\ pc = "done"
    /\ Len(loadedChunks) = 2
    /\ loadedChunks[1].chunkPos = [x |-> -32, z |-> 65]
    /\ loadedChunks[2].chunkPos = [x |-> -1, z |-> 95]

\* C9: the loop of the constructor of ChunkNBT stops when inflate reports a
\* corrupt stream, an end without progress or a lack of memory: with such a
\* result no further pass of the loop is taken
C9_LoopStopsOnError ==
    (pc = "inflate"
     /\ zResult \in {"Z_DATA_ERROR", "Z_BUF_ERROR", "Z_MEM_ERROR"})
        => ~ENABLED InflateLoop

(***************************************************************************)
(* Properties of the file name part.                                       *)
(***************************************************************************)
\* the places of the character ch after the place p
placesAfter(name, ch, p) == {q \in (p + 1)..Len(name) : name[q] = ch}

\* a sign at most, then a digit: the start of a decimal number
startsNumber(s) ==
    \/ Len(s) >= 1 /\ s[1] \in Digits
    \/ Len(s) >= 2 /\ s[1] \in {"-", "+"} /\ s[2] \in Digits

\* two coordinates can be read off the name: it has a digit or a minus, two
\* dots after the first of these, and a number before each of the two dots
hasCoords(name) ==
    LET numeric == {p \in 1..Len(name) : name[p] \in Digits \cup {"-"}}
    IN  /\ numeric # {}
        /\ LET first == Min(numeric)
               dots == placesAfter(name, ".", first)
           IN  /\ Cardinality(dots) >= 2
               /\ LET d1 == Min(dots)
                      d2 == Min(dots \ {d1})
                  IN  /\ startsNumber(SubSeq(name, first, d1 - 1))
                      /\ startsNumber(SubSeq(name, d1 + 1, d2 - 1))

\* C7: for a file name that two coordinates cannot be read off, the
\* constructor returns with loadedChunks empty, raises nothing and does not
\* open the file
C7_BadNameReturnsEmpty ==
    (pc # "ctor" /\ ~hasCoords(mcaPath)) =>
        /\ pc = "done"
        /\ loadedChunks = <<>>
        /\ ~regionFile.is_open

(***************************************************************************)
(* Properties of getChunkData.                                             *)
(***************************************************************************)
\* C10: getChunkData returns a ChunkData for every extracted buffer and
\* raises nothing, whatever the tag bytes and name lengths of the buffer
C10_DecodeNeverRaises ==
    /\ nbtData.phase # "thrown"
    /\ pc # "thrown"

\* a handler called by the main loop has returned to it
C11_BackInMainLoop ==
    /\ pc = "getChunkData"
    /\ nbtData.phase = "loop"
    /\ nbtData'.phase # "thrown"
    /\ nbtData'.frames = <<>>

\* the main loop is left exactly when the stack is empty or the cursor is at
\* the end of the buffer
C11_StopsAtOnce ==
    C11_BackInMainLoop =>
        (nbtData'.phase = "exit" <=>
            (nbtData'.openTags = <<>>
             \/ nbtData'.dataIndex >= Len(nbtData'.extractedData)))

\* C11: for every buffer the pass of getChunkData comes to its end, the
\* element loops of the handlers included, and the main loop stops as soon
\* as the stack of open compounds is empty or the cursor is at the end of
\* the buffer
C11_DecoderTerminates ==
    /\ <>(nbtData.phase \in {"returned", "thrown"})
    /\ [][C11_StopsAtOnce]_vars

\* a pass that ended at the end of a cut buffer with the root still open
C11_Witness ==
    /\ nbtData.phase = "returned"
    /\ nbtData.openTags # <<>>
    /\ nbtData.dataIndex = Len(nbtData.extractedData)
    /\ nbtData.extractedData = SubSeq(DocList, 1, 20)

\* the step reads one element of an array or list
elementStep ==
    /\ pc = "getChunkData"
    /\ nbtData.phase = "loop"
    /\ nbtData.frames # <<>>
    /\ top(nbtData.frames).left > 0

\* the bytes of width w at the cursor as a signed number, zero when the
\* buffer ends before them
rawAtCursor(w) ==
    LET buf == nbtData.extractedData
        at == nbtData.dataIndex
    IN  IF at + w <= Len(buf) THEN Signed(SubSeq(buf, at + 1, at + w)) ELSE 0

sampleWidth(type) ==
    CASE type = tByte -> 1 [] type = tShort -> 2 [] type = tInt -> 4

\* a sample is recorded exactly for a byte, short or int element read in a
\* biome context, and the code recorded follows the fold law
C12_Sample ==
    LET type == top(nbtData.frames).type
        raw == rawAtCursor(sampleWidth(type))
        inContext == /\ elementStep
                     /\ nbtData.inBiomeList
                     /\ type \in {tByte, tShort, tInt}
    IN  /\ nbtData'.biomes # nbtData.biomes => inContext
        /\ inContext =>
               nbtData'.biomes =
                   Append(nbtData.biomes,
                          IF type = tShort \/ raw >= 0 THEN raw
                          ELSE raw % 128)

\* C12: a biome sample of byte or int width with raw value v is recorded as
\* v + 128 * k for the least k >= 0 that makes it non-negative, and a sample
\* of short width as the raw signed value
C12_BiomeFold == [][C12_Sample]_vars

\* the ints -300, 5, -1, 200 were recorded as 84, 5, 127, 200
C12_Witness ==
    /\ nbtData.extractedData = DocIntBiomes
    /\ nbtData.biomes = <<84, 5, 127, 200>>

\* the ChunkData that the call returned
returnedChunk == loadedChunks[Len(loadedChunks)]

\* C13: the biome histogram of the returned ChunkData maps each code to the
\* number of times it occurs among the recorded samples: every count is at
\* least 1 and the counts sum to the number of samples; the byte array
\* "Biomes" of 1, -127, 4 yields {1: 2, 4: 1}
C13_Histogram ==
    nbtData.phase = "returned" =>
        LET samples == nbtData.biomes
            counts == returnedChunk.biomeCounts
            places(b) == {k \in 1..Len(samples) : samples[k] = b}
        IN  /\ DOMAIN counts = {samples[k] : k \in 1..Len(samples)}
            /\ \A b \in DOMAIN counts :
                   counts[b] = Cardinality(places(b)) /\ counts[b] >= 1
            /\ nbtData.extractedData = DocBiomes
                   => counts = (1 :> 2) @@ (4 :> 1)

\* the byte array 1, -127, 4 was decoded and the ChunkData returned
C13_Witness ==
    /\ nbtData.phase = "returned"
    /\ nbtData.extractedData = DocBiomes
    /\ returnedChunk.biomeCounts = (1 :> 2) @@ (4 :> 1)

\* the Structure values of the two names the documents use
kindOf(name) == IF name = txt_Village THEN 1 ELSE 0

namedStep ==
    /\ pc = "getChunkData"
    /\ nbtData.phase = "loop"
    /\ nbtData.frames = <<>>

\* the byte at place k of the buffer, counted from 1; zero past its end
byteAt(k) ==
    IF k <= Len(nbtData.extractedData) THEN nbtData.extractedData[k] ELSE 0

\* the bytes of the buffer from place k on, n of them; zero past its end
bytesAt(k, n) == [j \in 1..n |-> byteAt(k + j - 1)]

\* the named entry at the cursor: its tag, the length and text of its name,
\* and the place after the name
entryTag == byteAt(nbtData.dataIndex + 1)
entryNameLength == byteAt(nbtData.dataIndex + 2) * 256 + byteAt(nbtData.dataIndex + 3)
entryName == bytesAt(nbtData.dataIndex + 4, entryNameLength)
entryPayload == nbtData.dataIndex + 3 + entryNameLength

\* the named entry at the cursor is a long called key, held in full
namedLong(key) ==
    /\ namedStep
    /\ entryTag = tLong
    /\ entryNameLength = Len(key)
    /\ entryName = key
    /\ entryPayload + 8 <= Len(nbtData.extractedData)

\* a field changes only by a named long of its key, to the value of that long
C15_Step ==
    /\ IF namedLong(Keys_lastUpdate)
       THEN nbtData'.lastUpdate = bytesAt(entryPayload + 1, 8)
       ELSE nbtData'.lastUpdate = nbtData.lastUpdate
    /\ IF namedLong(Keys_inhabitedTime)
       THEN nbtData'.inhabitedTime = bytesAt(entryPayload + 1, 8)
       ELSE nbtData'.inhabitedTime = nbtData.inhabitedTime

\* the returned ChunkData carries the two fields
C15_Returned ==
    nbtData.phase = "returned" =>
        /\ returnedChunk.lastUpdate = nbtData.lastUpdate
        /\ returnedChunk.inhabitedTime = nbtData.inhabitedTime

C17_InhabitedTimeNotNegative ==
    \A n \in 1..Len(loadedChunks) : loadedChunks[n].inhabitedTime[1] < 128

\* the step ends the loop of a byte array, int array or list
arrayEndStep ==
    /\ pc = "getChunkData"
    /\ nbtData.phase = "loop"
    /\ nbtData.frames # <<>>
    /\ top(nbtData.frames).left = 0
    /\ top(nbtData.frames).kind \in {"byteArray", "intArray", "list"}

\* C18: when a byte array, int array or list has been read, inBiomeList has
\* the value it had right before that entry was read; so the samples of the
\* second byte array in a list called "Biomes" are recorded too
C18_BiomeContextRestored ==
    [][arrayEndStep =>
           nbtData'.inBiomeList = top(nbtData.frames).biomeBefore]_vars

\* the well-formed documents that hold lists
ListDocs ==
    {DocList, DocShortBiomes, DocBiomeLists, DocListOfCompounds,
     DocListOfLists}

\* C19: a list is read as its element kind, its count and its elements, so
\* that the pass over a well-formed root compound ends with no compound open
\* and the cursor at the end of the root, without a throw
C19_ListsConsumed ==
    nbtData.extractedData \in ListDocs =>
        /\ nbtData.phase # "thrown"
        /\ nbtData.phase \in {"exit", "returned"} =>
               /\ nbtData.openTags = <<>>
               /\ nbtData.dataIndex = Len(nbtData.extractedData)

\* the length of the string payload of the named entry at the cursor
entryTextLength == byteAt(entryPayload + 1) * 256 + byteAt(entryPayload + 2)

\* a named byte held in full moves the cursor over tag, name length, name
\* and value; a named string held in full over tag, name length, name, text
\* length and text
C20_Advance ==
    /\ (namedStep /\ entryTag = tByte
        /\ entryPayload + 1 <= Len(nbtData.extractedData))
           => nbtData'.dataIndex = entryPayload + 1
    /\ (namedStep /\ entryTag = tString
        /\ entryPayload + 2 + entryTextLength <= Len(nbtData.extractedData))
           => nbtData'.dataIndex = entryPayload + 2 + entryTextLength

\* C20: reading a name or a string of declared length n that the buffer
\* holds in full moves the cursor by 2 + n, whatever the bytes of the text
C20_TextAdvancesCursor == [][C20_Advance]_vars

\* the step opens a named compound called key whose name the buffer holds
opensCompound(key) ==
    /\ namedStep
    /\ entryTag = tCompound
    /\ entryNameLength = Len(key)
    /\ entryName = key
    /\ entryPayload <= Len(nbtData.extractedData)

\* the step opens "References" with "Structures" on top of the stack
opensRefsInStructures ==
    /\ opensCompound(Keys_structureRefs)
    /\ nbtData.openTags # <<>>
    /\ top(nbtData.openTags) = Keys_structure

C21_Step ==
    /\ (~nbtData.inStructureRefs /\ nbtData'.inStructureRefs)
           => opensRefsInStructures
    /\ opensRefsInStructures => nbtData'.inStructureRefs

\* C21: the flag inStructureRefs goes from clear to set only when a compound
\* called "References" is opened while "Structures" is on top of the stack
\* of open compounds, every such opening leaves the flag set, and no other
\* opening sets it
C21_RefsFlagSetOnlyInStructures == [][C21_Step]_vars

\* "References" was opened in "Structures" a second time, the flag being
\* set already
C21_Witness ==
    /\ nbtData.extractedData = DocRefsNested
    /\ nbtData.inStructureRefs
    /\ nbtData.openTags =
           <<<<>>, Keys_structure, Keys_structureRefs, Keys_structure,
             Keys_structureRefs>>

\* the step reads the end tag that closes the compound of the tracked
\* structure
closesTracked ==
    /\ namedStep
    /\ nbtData.dataIndex < Len(nbtData.extractedData)
    /\ entryTag = tEnd
    /\ nbtData.inStructureRefs
    /\ nbtData.currentStruct # unknown
    /\ nbtData.openTags # <<>>
    /\ top(nbtData.openTags) = nbtData.currentStructName

\* C22: a structure comes into the structure set when the end tag that
\* closes its compound is read and not before: the set changes only in the
\* step that reads that end tag
C22_RecordedAtClosingTag ==
    [][nbtData'.structures # nbtData.structures => closesTracked]_vars

\* the place of the topmost name on the stack of open compounds
topmost(stack, name) ==
    LET at == {k \in 1..Len(stack) : stack[k] = name}
    IN  IF at = {} THEN 0 ELSE CHOOSE k \in at : \A j \in at : j <= k

\* C28: whenever a structure is tracked, the flag inStructureRefs is set and
\* the name of the tracked structure is on the stack of open compounds,
\* above an open "References"
C28_TrackedInsideReferences ==
    nbtData.currentStruct # unknown =>
        /\ nbtData.inStructureRefs
        /\ topmost(nbtData.openTags, nbtData.currentStructName) > 0
        /\ \E k \in 1..Len(nbtData.openTags) :
               /\ nbtData.openTags[k] = Keys_structureRefs
               /\ k < topmost(nbtData.openTags, nbtData.currentStructName)

\* C29: two calls of getChunkData in a row on one ChunkNBT object, with the
\* same position, return ChunkData equal in inhabitedTime, lastUpdate, biome
\* histogram and structure set
C29_Repeatable ==
    Len(loadedChunks) = 2 =>
        /\ loadedChunks[2].inhabitedTime = loadedChunks[1].inhabitedTime
        /\ loadedChunks[2].lastUpdate = loadedChunks[1].lastUpdate
        /\ loadedChunks[2].biomeCounts = loadedChunks[1].biomeCounts
        /\ loadedChunks[2].structures = loadedChunks[1].structures

\* the table read came short
shortTable == disk.exists /\ disk.size < tableSize /\ pc \notin {"ctor", "open"}

\* entry k of the table was read in full
readInFull(k) == 4 * k + 4 <= bytesRead

\* every ChunkData comes from an entry that was read in full
loadedWereRead ==
    \A n \in 1..Len(loadedChunks) : readInFull(indexOf(loadedChunks[n]))

\* the loop passes an entry that was not read in full as an absent one, and
\* looks into an entry read in full exactly when one of its bytes is not
\* zero; no step appends a ChunkData of an entry not read in full
C23_Pass ==
    /\ (shortTable /\ pc = "scan") =>
           IF readInFull(i)
           THEN entry'.why = "absent" <=> tableEntry(disk, i) = <<0, 0, 0, 0>>
           ELSE entry'.why = "absent"
    /\ shortTable => loadedWereRead'

\* C23: when the read of the location table returns fewer than 4096 bytes,
\* every entry with a byte at or beyond the number of bytes read is treated
\* as absent and yields no ChunkData, and the entries read in full are
\* still looked into
C23_ShortTableReduced == [][C23_Pass]_vars

\* a pass of the first loop brings mapEdge * chunkPx nearer to minSize, a
\* pass of the second takes chunkPx down and not below 1, and the size that
\* is left lies between minSize and maxSize
C30_Step ==
    /\ (mainPc = "grow" /\ mainPc' = "grow")
           => mapEdge' * chunkPx' > mapEdge * chunkPx
    /\ (mainPc = "shrink" /\ mainPc' = "shrink")
           => (chunkPx' < chunkPx /\ chunkPx' >= 1)
    /\ mainPc' = "fitted"
           => /\ minSize <= mapEdge' * chunkPx'
              /\ mapEdge' * chunkPx' <= maxSize
              /\ chunkPx' >= 1

\* C30: the two loops that fit the size of the image come to an end for
\* every maxDistanceFromOrigin >= 0 and every chunkPx they start with: every
\* pass of a loop makes progress towards the end of that loop, and they end
\* with minSize <= mapEdge * chunkPx <= maxSize and chunkPx >= 1
C30_FitTerminates == [][C30_Step]_vars

\* the threads that stand at the given place
threadsAt(place) == {k \in Threads : threadList[k].pc = place}

\* C24: at most one thread at a time executes mappers.drawChunk, and at
\* most one at a time updates regionCount and chunkCount; the thread that
\* does holds the mutex
C24_Serialized ==
    /\ Cardinality(threadsAt("drawChunk")) <= 1
    /\ Cardinality(threadsAt("counting")) <= 1
    /\ \A k \in threadsAt("drawChunk") : imageLock = lockedBy(k)
    /\ \A k \in threadsAt("counting") : countLock = lockedBy(k)

\* one thread draws a chunk while another, with a chunk to draw, waits
C24_Witness ==
    /\ threadsAt("drawChunk") # {}
    /\ \E k \in threadsAt("chunks") : threadList[k].entryChunks > 0

\* C27: after the joins every one of the numRegionFiles files was loaded by
\* exactly one thread, exactly once, and regionCount = numRegionFiles
C27_EveryFileOnce ==
    mainPc \in {"save", "done"} =>
        /\ \A f \in DOMAIN fileLoads : fileLoads[f] = 1
        /\ regionCount = numRegionFiles

\* C26: the image of a mapper is written after finalProcessing has run
\* exactly once for it, and the image of the ActivityMapper after the times
\* it has stored were drawn onto it
C26_FinalProcessingBeforeSave ==
    \A m \in Mappers :
        mappers[m].saved =>
            /\ mappers[m].finalProcessing = 1
            /\ m = "activity" => mappers[m].drawn = mappers[m].stored

\* the chunk lies outside the range of the map: x < -(W/2), x >= W/2,
\* z < -(H/2) or z >= H/2, the halves taken exactly
outsideMap(m, x, z) ==
    \/ 2 * x < -m.mapWidth
    \/ 2 * x >= m.mapWidth
    \/ 2 * z < -m.mapHeight
    \/ 2 * z >= m.mapHeight

\* a call for a chunk outside the map changes no pixel and returns black,
\* and no call gives the image a pixel it did not have
C25_Call ==
    /\ outsideMap(map, mapCall'.x, mapCall'.z) =>
           /\ map'.pixels = map.pixels
           /\ mapCall'.op = "getChunkColor" => mapCall'.result = black
    /\ DOMAIN map'.pixels = DOMAIN map.pixels

\* C25: for a chunk outside the range of the map, with a border or
\* without, setChunkColor leaves every pixel as it is and getChunkColor
\* returns (0, 0, 0), and setChunkColor writes no pixel outside the image
C25_OutsideLeftAlone == [][C25_Call]_vars

====
